---------------------------- MODULE Spec2Model ----------------------------
(***************************************************************************)
(* A model of lox-rs: the bytecode compiler's scope / upvalue resolution,  *)
(* the Chunk patch operations, the managed heap's collector and the code   *)
(* emitted for a local import, each as a state machine of its own over     *)
(* the shared variables below.                                             *)
(*                                                                         *)
(* Indices are 0-based as in the Rust source; a TLA+ sequence s holds the  *)
(* element of index i at s[i + 1].                                         *)
(***************************************************************************)
EXTENDS Integers, Sequences, FiniteSets, TLC

VARIABLES
    \* ---- lox-compiler: struct Compiler -------------------------------
    module,      \* Module: chunks, closures, identifiers
    contexts,    \* Vec<CompilerContext>
    errors,      \* Vec<Diagnostic> (the messages)
    fn_names,    \* names of the functions being compiled, one per open Function context
    captures,    \* per open context: the <<name, index>> pairs resolve_upvalue returned
    ops,         \* number of scope, declaration and function calls made so far
    ret,         \* the last Compiler call and what it returned
    result,      \* what compile() returned, or None while it runs
    \* ---- lox-bytecode: one Chunk driven through its patch operations --
    chunk,       \* the Chunk under construction
    patches,     \* open if / while statements with their unpatched offset slots
    finished,    \* RETURN_TOP has closed the chunk
    patched,     \* log of the patch calls made: [index, to, current]
    \* ---- lox-gc: ManagedHeap -------------------------------------------
    heap,        \* live allocations: the objects by id, and the array buffers
    next_id,     \* next fresh allocation id
    marks,       \* heap::Heap mark bits (set of marked pointers)
    finalizers,  \* ManagedHeap.finalizers
    stack,       \* the root set handed to collect: the VM value stack
    dropped,     \* log of destructor runs (drop_in_place), in order
    gc_log,      \* what the force_collect call just made saw and did, or None
    \* ---- the code emitted for a local import, run on the value stack --
    vm,          \* the running program: chunk, ip, value stack, frame base, output
    \* ---- the libraries and the driver, each exercised on its own -------
    pool,        \* Compiler + Module constant pools: numbers, strings, identifiers
    interner,    \* lox-vm Interner: map, vec, and the calls made
    tab,         \* lox-vm Table with the map it should implement
    collector,   \* ManagedHeap::collect: bytes_used, threshold, collections
    session,     \* the lox binary: REPL / file run
    \* ---- lox-syntax and lox-vm functions applied to drawn inputs --------
    parser,      \* Parser inside parse_assign: the operands, diagnostics, result
    offsets,     \* a source text, its LineOffsets and a queried position
    pair         \* two Values handed to Value::is_same_type

cvars == <<module, contexts, errors, fn_names, captures, ops, ret, result>>
kvars == <<chunk, patches, finished, patched>>
gvars == <<heap, next_id, marks, finalizers, stack, dropped, gc_log>>
ivars == <<vm>>
pvars == <<pool, interner, tab, collector, session>>
svars == <<parser, offsets, pair>>
vars  == <<cvars, kvars, gvars, ivars, pvars, svars>>


(***************************************************************************)
(* Bounds of the model.                                                    *)
(***************************************************************************)
MaxOps    == 5     \* scope, declaration and function calls made on the Compiler
MaxErrors == 1     \* recorded diagnostics
MaxDiagnostics == 2 \* diagnostics recorded in one compile() run
MaxPoolCalls == 4  \* add_number / add_string / add_identifier calls
MaxInterns == 4    \* Interner::intern calls
MaxKeys == 7       \* distinct Symbols used as Table keys
MaxAllocs == 3     \* allocations made between the collect calls
MaxCollects == 2   \* ManagedHeap::collect calls
MaxPrompts == 8    \* prompts the REPL prints
MaxLines == 2       \* lines standard input holds before it ends
MaxLocalsOps == 6   \* calls made on one Locals
MaxTraceCalls == 12  \* Gc::trace calls of one collection
MaxTraceObjects == 3 \* closures and upvalue cells on the traced heap
MaxLimit == 2       \* iterations of the compiled for loop
MaxTextLen == 4    \* bytes of a source text handed to LineOffsets
MaxStart == 3      \* first byte of the left operand of an assignment
MaxJumps  == 3     \* if and while statements compiled into the chunk
MaxBodies == 3     \* runs of straight-line code compiled into the chunk
ShortBody == 4     \* bytes of a short run of straight-line code
LongBody  == 32764 \* bytes of a long run of straight-line code
MaxObjects == 4    \* objects ever managed on the heap
MaxStack   == 3    \* values on the VM stack
MaxStrings == 1    \* string constants of an imported module
MaxGlobals == 1    \* globals defined in one Import
MaxPreLocals == 2  \* locals declared in the block before the import statement
MaxValue   == 5    \* values the imported module may give its global x

Names == {"a", "b"}

Min(S) == CHOOSE x \in S : \A y \in S : x <= y
Max(S) == CHOOSE x \in S : \A y \in S : x >= y

(***************************************************************************)
(* Opcodes. lox_bytecode::opcode is not part of the sources at hand; the   *)
(* numbers only have to be distinct bytes.                                 *)
(***************************************************************************)
OP_NIL           == 1
OP_TRUE          == 2
OP_FALSE         == 3
OP_POP           == 4
OP_GET_LOCAL     == 5
OP_DEFINE_GLOBAL == 7
OP_CLOSE_UPVALUE == 12
OP_JUMP          == 20
OP_JUMP_IF_FALSE == 21
OP_CLOSURE       == 24
OP_RETURN        == 25
OP_RETURN_TOP    == 26
OP_PRINT         == 30
OP_IMPORT        == 31
OP_IMPORT_GLOBAL == 32
OP_NUMBER        == 33

(***************************************************************************)
(* lox-bytecode: Chunk.  instructions is a byte vector; it is kept as its  *)
(* length and a function from positions to bytes.  A position below len    *)
(* that `at` does not list holds FillByte (a run of plain one-byte         *)
(* instructions emitted by add_fill), so that a chunk of tens of thousands *)
(* of bytes stays a small value.                                           *)
(***************************************************************************)
FillByte == OP_POP

Chunk_new == [len |-> 0, at |-> <<>>]

get_u8(c, pc) == IF pc \in DOMAIN c.at THEN c.at[pc] ELSE FillByte

add_u8(c, value) ==
    [len |-> c.len + 1, at |-> (c.len :> value) @@ c.at]

\* n times add_u8(FillByte)
add_fill(c, n) == [len |-> c.len + n, at |-> c.at]

\* u32::to_le_bytes / u16::to_le_bytes
to_le_bytes(value, n) == [i \in 1..n |-> (value \div (256 ^ (i - 1))) % 256]

\* i16::to_le_bytes: the two's complement bit pattern of a value in i16
i16_to_le_bytes(value) == to_le_bytes((value + 65536) % 65536, 2)

\* i16::from_le_bytes
i16_from_le_bytes(lo, hi) ==
    LET u == lo + 256 * hi IN IF u >= 32768 THEN u - 65536 ELSE u

\* `x as i16` of an isize: keeps the low 16 bits
as_i16(x) ==
    LET u == x % 65536 IN IF u >= 32768 THEN u - 65536 ELSE u

RECURSIVE add_bytes(_, _)
add_bytes(c, bytes) ==
    IF bytes = <<>> THEN c ELSE add_bytes(add_u8(c, Head(bytes)), Tail(bytes))

add_u32(c, value) == add_bytes(c, to_le_bytes(value, 4))

add_u16(c, value) == add_bytes(c, to_le_bytes(value, 2))

add_i16(c, value) == add_bytes(c, i16_to_le_bytes(value))

set_i16(c, index, value) ==
    LET bytes == i16_to_le_bytes(value) IN
    [c EXCEPT !.at = (index :> bytes[1]) @@ ((index + 1) :> bytes[2]) @@ c.at]

instruction_index(c) == c.len

\* the offset measured from the slot itself instead of the byte after it
patch_instruction_to_slot(c, index, to) ==
    LET offset == to - index IN set_i16(c, index, as_i16(offset))

\* the patch aimed one byte past the current end of the chunk
patch_instruction_past(c, index) ==
    set_i16(c, index, as_i16(c.len + 1 - index - 2))

patch_instruction_to(c, index, to) ==
    LET offset == to - index - 2 IN set_i16(c, index, as_i16(offset))

patch_instruction(c, index) ==
    patch_instruction_to(c, index, instruction_index(c))

get_u32(c, pc) ==
    get_u8(c, pc) + 256 * get_u8(c, pc + 1) + 65536 * get_u8(c, pc + 2)
        + 16777216 * get_u8(c, pc + 3)

get_i16(c, pc) == i16_from_le_bytes(get_u8(c, pc), get_u8(c, pc + 1))

\* disasm.rs: the absolute target of a jump at `offset` with operand `relative`
absolute(offset, relative) == offset + relative + 3


(***************************************************************************)
(* lox-compiler: Locals (locals.rs).                                       *)
(***************************************************************************)
Locals_new == [stack |-> <<>>, scope_depth |-> 0]

Locals_begin_scope(l) == [l EXCEPT !.scope_depth = @ + 1]

\* the new Locals and the split-off locals, in declaration order
Locals_end_scope(l) ==
    LET depth == l.scope_depth - 1
        found == {i \in 1..Len(l.stack) : l.stack[i].depth > depth}
        index == IF found = {} THEN Len(l.stack) + 1 ELSE Min(found)
    IN  [locals  |-> [stack |-> SubSeq(l.stack, 1, index - 1), scope_depth |-> depth],
         removed |-> SubSeq(l.stack, index, Len(l.stack))]

\* the most recently declared local of that name, as its position in the
\* stack (1-based), or 0
Locals_get(l, identifier) ==
    LET found == {i \in 1..Len(l.stack) : l.stack[i].name = identifier}
    IN  IF found = {} THEN 0 ELSE Max(found)

Locals_get_at_depth(l, identifier, depth) ==
    LET found == {i \in 1..Len(l.stack) :
                    l.stack[i].depth = depth /\ l.stack[i].name = identifier}
    IN  IF found = {} THEN 0 ELSE Max(found)

Locals_get_at_current_depth(l, identifier) ==
    Locals_get_at_depth(l, identifier, l.scope_depth)

Locals_mark_captured(l, slot) ==
    LET found == {i \in 1..Len(l.stack) : l.stack[i].slot = slot}
    IN  IF found = {} THEN l
        ELSE [l EXCEPT !.stack[Min(found)].is_upvalue = TRUE]

Locals_mark_initialized(l) ==
    [l EXCEPT !.stack[Len(l.stack)].initialized = TRUE]

\* insert without the look-up at the current depth
Locals_insert_shadow(l, identifier) ==
    [l EXCEPT !.stack = Append(@, [name        |-> identifier,
                                   depth       |-> l.scope_depth,
                                   slot        |-> Len(l.stack),
                                   initialized |-> FALSE,
                                   is_upvalue  |-> FALSE])]

Locals_insert(l, identifier) ==
    IF Locals_get_at_depth(l, identifier, l.scope_depth) # 0
    THEN l
    ELSE [l EXCEPT !.stack = Append(@, [name        |-> identifier,
                                        depth       |-> l.scope_depth,
                                        slot        |-> Len(l.stack),
                                        initialized |-> FALSE,
                                        is_upvalue  |-> FALSE])]

(***************************************************************************)
(* lox-compiler: CompilerContext (compiler.rs).                            *)
(***************************************************************************)
UpLocal(slot)    == [kind |-> "Local", index |-> slot]
UpUpvalue(index) == [kind |-> "Upvalue", index |-> index]

CompilerContext_new(context_type, chunk_index) ==
    [context_type |-> context_type, chunk_index |-> chunk_index,
     locals |-> Locals_new, upvalues |-> <<>>]

\* the context after the call and the returned index
add_upvalue_nodedup(ctx, upvalue) ==
    [ctx   |-> [ctx EXCEPT !.upvalues = Append(@, upvalue)],
     index |-> Len(ctx.upvalues)]

add_upvalue(ctx, upvalue) ==
    LET found == {i \in 1..Len(ctx.upvalues) : ctx.upvalues[i] = upvalue}
    IN  IF found # {}
        THEN [ctx |-> ctx, index |-> Min(found) - 1]
        ELSE [ctx   |-> [ctx EXCEPT !.upvalues = Append(@, upvalue)],
              index |-> Len(ctx.upvalues)]

\* Option<T>
Some(x) == [some |-> TRUE, v |-> x]
NoneOpt == [some |-> FALSE, v |-> 0]

\* Option<Option<StackIndex>>: Uninit is the outer None (the local is found
\* and not initialized), Absent is Some(None), Found(slot) is Some(Some(slot))
Found(slot) == [tag |-> "Found", slot |-> slot]
Absent      == [tag |-> "Absent", slot |-> 0]
Uninit      == [tag |-> "Uninit", slot |-> 0]

Context_resolve_local_oldest(ctx, name) ==
    LET found == {i \in 1..Len(ctx.locals.stack) : ctx.locals.stack[i].name = name}
    IN  IF found = {} THEN Absent
        ELSE IF ctx.locals.stack[Min(found)].initialized
             THEN Found(ctx.locals.stack[Min(found)].slot)
             ELSE Uninit

Context_resolve_local(ctx, name) ==
    LET i == Locals_get(ctx.locals, name)
    IN  IF i = 0 THEN Absent
        ELSE IF ctx.locals.stack[i].initialized
             THEN Found(ctx.locals.stack[i].slot)
             ELSE Uninit

NotInitialized == "Local not initialized"

RECURSIVE thread_upvalue_local(_, _, _)
thread_upvalue_local(ctxs, j, upvalue) ==
    IF j >= Len(ctxs)
    THEN [contexts |-> ctxs, value |-> upvalue]
    ELSE LET r == add_upvalue(ctxs[j + 1], UpLocal(upvalue))
         IN  thread_upvalue_local([ctxs EXCEPT ![j + 1] = r.ctx], j + 1, r.index)

\* the inner loop of resolve_upvalue: Upvalue::Upvalue(upvalue) added to
\* contexts j .. Len(ctxs) - 1
RECURSIVE thread_upvalue(_, _, _)
thread_upvalue(ctxs, j, upvalue) ==
    IF j >= Len(ctxs)
    THEN [contexts |-> ctxs, value |-> upvalue]
    ELSE LET r == add_upvalue(ctxs[j + 1], UpUpvalue(upvalue))
         IN  thread_upvalue([ctxs EXCEPT ![j + 1] = r.ctx], j + 1, r.index)

\* the outer loop of Compiler::resolve_upvalue from context i downwards:
\* the contexts afterwards, the returned Option and whether an error was added
RECURSIVE resolve_upvalue_from(_, _, _)
resolve_upvalue_from(ctxs, i, name) ==
    IF i < 0
    THEN [contexts |-> ctxs, value |-> NoneOpt, error |-> FALSE]
    ELSE LET r == Context_resolve_local(ctxs[i + 1], name) IN
         CASE r.tag = "Uninit" ->
                [contexts |-> ctxs, value |-> NoneOpt, error |-> TRUE]
           [] r.tag = "Absent" ->
                resolve_upvalue_from(ctxs, i - 1, name)
           [] r.tag = "Found" ->
                LET c1 == [ctxs EXCEPT ![i + 1].locals = Locals_mark_captured(@, r.slot)]
                    u  == add_upvalue(c1[i + 2], UpLocal(r.slot))
                    c2 == [c1 EXCEPT ![i + 2] = u.ctx]
                    t  == thread_upvalue(c2, i + 2, u.index)
                IN  [contexts |-> t.contexts, value |-> Some(t.value), error |-> FALSE]

resolve_upvalue(ctxs, name) == resolve_upvalue_from(ctxs, Len(ctxs) - 2, name)

\* Compiler::resolve_local on the current context: the returned Option and
\* whether an error was added
resolve_local(ctxs, name) ==
    LET r == Context_resolve_local(ctxs[Len(ctxs)], name) IN
    CASE r.tag = "Uninit" -> [value |-> NoneOpt, error |-> TRUE]
      [] r.tag = "Absent" -> [value |-> NoneOpt, error |-> FALSE]
      [] r.tag = "Found"  -> [value |-> Some(r.slot), error |-> FALSE]

add_error(errs, message) == Append(errs, message)


(***************************************************************************)
(* lox-compiler: struct Compiler and the calls the statement compiler      *)
(* makes on it.                                                            *)
(***************************************************************************)
Module_new == [chunks |-> <<>>, closures |-> <<>>, identifiers |-> <<>>]

Cur == contexts[Len(contexts)]

CurChunk == module.chunks[Cur.chunk_index + 1]

is_scoped(ctx) == ctx.locals.scope_depth > 0

\* the last local is declared and its initializer is still being compiled
Pending(ctx) ==
    /\ Len(ctx.locals.stack) > 0
    /\ ~ctx.locals.stack[Len(ctx.locals.stack)].initialized

\* begin_context, then the reserved local of with_context, initialized
with_context(ctxs, chunk_index, context_type) ==
    LET c0 == CompilerContext_new(context_type, chunk_index)
        c1 == [c0 EXCEPT !.locals =
                 Locals_insert(@, IF context_type = "Function" THEN "" ELSE "this")]
    IN  Append(ctxs, [c1 EXCEPT !.locals = Locals_mark_initialized(@)])

\* with_scoped_context: with_context, then begin_scope inside it
with_scoped_context(ctxs, chunk_index, context_type) ==
    LET c == with_context(ctxs, chunk_index, context_type)
    IN  [c EXCEPT ![Len(c)].locals = Locals_begin_scope(@)]

\* Compiler::add_identifier: the pool afterwards and the index
add_identifier(ids, identifier) ==
    LET found == {i \in 1..Len(ids) : ids[i] = identifier}
    IN  IF found # {} THEN [identifiers |-> ids, index |-> Min(found) - 1]
        ELSE [identifiers |-> Append(ids, identifier), index |-> Len(ids)]

\* the opcode Compiler::end_scope emits for a removed local
scope_exit_op_pop(local) == OP_POP

scope_exit_op(local) == IF local.is_upvalue THEN OP_CLOSE_UPVALUE ELSE OP_POP

\* Compiler::end_scope's loop: one opcode per removed local, last declared first
RECURSIVE emit_scope_exit(_, _)
emit_scope_exit(c, removed) ==
    IF removed = <<>> THEN c
    ELSE emit_scope_exit(add_u8(c, scope_exit_op(removed[Len(removed)])),
                         SubSeq(removed, 1, Len(removed) - 1))

\* what `ret` holds of a call: the call, its name argument, the Option it
\* returned and, for resolve_upvalue, whether the name had been resolved
\* from this context before and whether the call grew a descriptor list
Ret(op, name, value) ==
    [op |-> op, name |-> name, value |-> value, again |-> FALSE, grew |-> FALSE]

Other == Ret("other", "", NoneOpt)

\* the name every declared function gets
FnName == "f"

\* the depth a context's own scopes start from: a function body is compiled
\* inside the scope with_scoped_context opened
BaseDepth(ctx) == IF ctx.context_type = "TopLevel" THEN 0 ELSE 1

\* the state compile() is in when compile_ast starts: Compiler::new(), then
\* with_context(TopLevel) has opened chunk 0 and reserved slot 0
InitCompiler ==
    /\ module = [Module_new EXCEPT !.chunks = <<Chunk_new>>]
    /\ contexts = with_context(<<>>, 0, "TopLevel")
    /\ errors = <<>>
    /\ fn_names = <<>>
    /\ captures = <<{}>>
    /\ ops = 0
    /\ ret = Other
    /\ result = NoneOpt
    /\ chunk = Chunk_new /\ patches = <<>> /\ finished = FALSE /\ patched = <<>>
    /\ heap = [objects |-> <<>>, buffers |-> {}] /\ next_id = 1 /\ marks = {}
    /\ finalizers = <<>> /\ stack = <<>> /\ dropped = <<>> /\ gc_log = NoneOpt
    /\ vm = NoneOpt
    /\ pool = NoneOpt /\ interner = NoneOpt /\ tab = NoneOpt /\ collector = NoneOpt
    /\ session = NoneOpt
    /\ parser = NoneOpt /\ offsets = NoneOpt /\ pair = NoneOpt

BeginScope ==
    /\ ~result.some
    /\ ~Pending(Cur)
    /\ ops < MaxOps
    /\ ops' = ops + 1
    /\ contexts' = [contexts EXCEPT ![Len(contexts)].locals = Locals_begin_scope(@)]
    /\ ret' = Other
    /\ UNCHANGED <<module, errors, fn_names, captures>>
    /\ UNCHANGED <<result, kvars, gvars, ivars, pvars, svars>>

EndScope ==
    /\ ~result.some
    /\ ~Pending(Cur)
    /\ Cur.locals.scope_depth > BaseDepth(Cur)
    /\ ops < MaxOps
    /\ ops' = ops + 1
    /\ LET r == Locals_end_scope(Cur.locals) IN
        /\ contexts' = [contexts EXCEPT ![Len(contexts)].locals = r.locals]
        /\ module' = [module EXCEPT !.chunks[Cur.chunk_index + 1] =
                        emit_scope_exit(@, r.removed)]
    /\ ret' = Ret("end_scope", "", NoneOpt)
    /\ UNCHANGED <<errors, fn_names, captures>>
    /\ UNCHANGED <<result, kvars, gvars, ivars, pvars, svars>>

\* a variable declared in a scope: add_local, its initializer follows
AddLocal(name) ==
    /\ ~result.some
    /\ ~Pending(Cur)
    /\ is_scoped(Cur)
    /\ ops < MaxOps
    /\ ops' = ops + 1
    /\ contexts' = [contexts EXCEPT ![Len(contexts)].locals = Locals_insert(@, name)]
    /\ ret' = Other
    /\ UNCHANGED <<module, errors, fn_names, captures>>
    /\ UNCHANGED <<result, kvars, gvars, ivars, pvars, svars>>

MarkLocalInitialized ==
    /\ ~result.some
    /\ Pending(Cur)
    /\ contexts' = [contexts EXCEPT ![Len(contexts)].locals = Locals_mark_initialized(@)]
    /\ ret' = Other
    /\ UNCHANGED <<module, errors, fn_names, captures, ops>>
    /\ UNCHANGED <<result, kvars, gvars, ivars, pvars, svars>>

ResolveLocal(name) ==
    LET r == resolve_local(contexts, name) IN
    /\ ~result.some
    /\ r.error => Len(errors) < MaxErrors
    /\ errors' = IF r.error THEN add_error(errors, NotInitialized) ELSE errors
    /\ ret' = Ret("resolve_local", name, r.value)
    /\ UNCHANGED <<module, contexts, fn_names, captures, ops>>
    /\ UNCHANGED <<result, kvars, gvars, ivars, pvars, svars>>

ResolveUpvalue(name) ==
    LET r == resolve_upvalue(contexts, name) IN
    /\ ~result.some
    /\ r.error => Len(errors) < MaxErrors
    /\ contexts' = r.contexts
    /\ errors' = IF r.error THEN add_error(errors, NotInitialized) ELSE errors
    /\ captures' = IF r.value.some
                   THEN [captures EXCEPT ![Len(captures)] = @ \cup {<<name, r.value.v>>}]
                   ELSE captures
    /\ ret' = [op |-> "resolve_upvalue", name |-> name, value |-> r.value,
               again |-> \E p \in captures[Len(captures)] : p[1] = name,
               grew |-> \E j \in 1..Len(contexts) :
                           r.contexts[j].upvalues # contexts[j].upvalues]
    /\ UNCHANGED <<module, fn_names, ops>>
    /\ UNCHANGED <<result, kvars, gvars, ivars, pvars, svars>>

\* `fun name() {`: inside a scope the function is a local, initialized before
\* its body is compiled; then the Function context with its body scope
BeginFunction ==
    /\ ~result.some
    /\ ~Pending(Cur)
    /\ ops < MaxOps
    /\ ops' = ops + 1
    /\ LET declared ==
             IF is_scoped(Cur)
             THEN [contexts EXCEPT ![Len(contexts)].locals =
                      Locals_mark_initialized(Locals_insert(@, FnName))]
             ELSE contexts
       IN  contexts' = with_scoped_context(declared, Len(module.chunks), "Function")
    /\ module' = [module EXCEPT !.chunks = Append(@, Chunk_new)]
    /\ fn_names' = Append(fn_names, FnName)
    /\ captures' = Append(captures, {})
    /\ ret' = Other
    /\ UNCHANGED errors
    /\ UNCHANGED <<result, kvars, gvars, ivars, pvars, svars>>

\* the instruction a function declaration leaves in the enclosing chunk
emit_closure_u16(c, index) == add_u16(add_u8(c, OP_CLOSURE), index)

emit_closure(c, index) == add_u32(add_u8(c, OP_CLOSURE), index)

\* `}` of a function: NIL; RETURN closes the body, the context ends, its
\* closure enters the pool and CLOSURE <index> is emitted in the enclosing
\* chunk (followed by DEFINE_GLOBAL <identifier> at global scope)
EndFunction ==
    /\ ~result.some
    /\ Len(contexts) > 1
    /\ ~Pending(Cur)
    /\ Cur.locals.scope_depth = BaseDepth(Cur)
    /\ ops < MaxOps
    /\ ops' = ops + 1
    /\ LET name    == fn_names[Len(fn_names)]
           outer   == contexts[Len(contexts) - 1]
           body    == add_u8(add_u8(CurChunk, OP_NIL), OP_RETURN)
           closure == [function |-> [name |-> name, chunk_index |-> Cur.chunk_index,
                                     arity |-> 0],
                       upvalues |-> Cur.upvalues]
           index   == Len(module.closures)
           c1      == emit_closure(module.chunks[outer.chunk_index + 1], index)
           id      == add_identifier(module.identifiers, name)
           c2      == IF is_scoped(outer) THEN c1
                      ELSE add_u32(add_u8(c1, OP_DEFINE_GLOBAL), id.index)
       IN  module' = [chunks |-> [module.chunks EXCEPT
                                       ![Cur.chunk_index + 1] = body,
                                       ![outer.chunk_index + 1] = c2],
                         closures |-> Append(module.closures, closure),
                         identifiers |-> IF is_scoped(outer) THEN module.identifiers
                                         ELSE id.identifiers]
    /\ contexts' = SubSeq(contexts, 1, Len(contexts) - 1)
    /\ fn_names' = SubSeq(fn_names, 1, Len(fn_names) - 1)
    /\ captures' = SubSeq(captures, 1, Len(captures) - 1)
    /\ ret' = Ret("closure", "", NoneOpt)
    /\ UNCHANGED errors
    /\ UNCHANGED <<result, kvars, gvars, ivars, pvars, svars>>

ResolveNames == Names

NextCompiler ==
    \/ BeginScope
    \/ EndScope
    \/ \E name \in Names : AddLocal(name)
    \/ MarkLocalInitialized
    \/ \E name \in ResolveNames : ResolveLocal(name)
    \/ \E name \in ResolveNames : ResolveUpvalue(name)
    \/ BeginFunction
    \/ EndFunction

SpecCompiler == InitCompiler /\ [][NextCompiler]_vars

(***************************************************************************)
(* Properties of upvalue resolution.                                       *)
(***************************************************************************)
Has(seq, x) == \E i \in 1..Len(seq) : seq[i] = x

\* 0-based position of x in seq
IndexOf(seq, x) == (CHOOSE i \in 1..Len(seq) : seq[i] = x) - 1

\* positions of the initialized locals called name in context k (0-based k)
InitializedLocals(k, name) ==
    {i \in 1..Len(contexts[k + 1].locals.stack) :
        /\ contexts[k + 1].locals.stack[i].name = name
        /\ contexts[k + 1].locals.stack[i].initialized}

\* the enclosing contexts (all but the innermost) holding an initialized
\* local called name
EnclosingWith(name) ==
    {k \in 0..(Len(contexts) - 2) : InitializedLocals(k, name) # {}}

\* the descriptor chain of a local of context k, seen from context j > k:
\* whether it is present up to j, and the index it has in j
RECURSIVE ChainPresent(_, _, _)
RECURSIVE ChainIndex(_, _, _)
ChainIndex(j, k, slot) ==
    IF j = k + 1
    THEN IndexOf(contexts[j + 1].upvalues, UpLocal(slot))
    ELSE IndexOf(contexts[j + 1].upvalues, UpUpvalue(ChainIndex(j - 1, k, slot)))

ChainPresent(j, k, slot) ==
    IF j = k + 1
    THEN Has(contexts[j + 1].upvalues, UpLocal(slot))
    ELSE /\ ChainPresent(j - 1, k, slot)
         /\ Has(contexts[j + 1].upvalues, UpUpvalue(ChainIndex(j - 1, k, slot)))

\* C1: after resolve_upvalue(name) with contexts 0..n-1 open, when the
\* nearest enclosing context holding an initialized local `name` is k < n-1:
\* that local is flagged captured in k, context k+1 lists
\* Upvalue::Local(slot), every context j in k+2..n-1 lists
\* Upvalue::Upvalue(i) with i the index of the chain's descriptor in j-1,
\* and the call returned the index of the descriptor in context n-1.
C1_UpvalueChain ==
    (ret.op = "resolve_upvalue" /\ EnclosingWith(ret.name) # {}) =>
        LET n  == Len(contexts)
            k  == Max(EnclosingWith(ret.name))
            st == contexts[k + 1].locals.stack
            i  == Max(InitializedLocals(k, ret.name))
        IN  /\ st[i].is_upvalue
            /\ ChainPresent(n - 1, k, st[i].slot)
            /\ ret.value = Some(ChainIndex(n - 1, k, st[i].slot))

\* a local of the top-level context's scope resolved from a function nested
\* two deep: Local in context 1, Upvalue threaded into context 2
C1_Witness ==
    /\ ret.op = "resolve_upvalue"
    /\ Len(contexts) = 3
    /\ EnclosingWith(ret.name) = {0}
    /\ ret.value.some
    /\ Has(contexts[3].upvalues, UpUpvalue(0))

\* C2: resolving a captured variable again from the same context returns
\* the index it returned the first time and grows no context's descriptor
\* list; no context holds two equal descriptors; two different captured
\* variables never have the same index in one context.
C2_SharedSlot ==
    /\ (ret.op = "resolve_upvalue" /\ ret.again) =>
            /\ ~ret.grew
            /\ ret.value.some
    /\ \A j \in 1..Len(captures) : \A p, q \in captures[j] :
            /\ p[1] = q[1] => p[2] = q[2]
            /\ p[2] = q[2] => p[1] = q[1]
    /\ \A j \in 1..Len(contexts) : \A a, b \in 1..Len(contexts[j].upvalues) :
            contexts[j].upvalues[a] = contexts[j].upvalues[b] => a = b

\* a second resolution of one variable, in a context that captured two
C2_Witness ==
    /\ ret.op = "resolve_upvalue"
    /\ ret.again
    /\ Cardinality(captures[Len(captures)]) = 2

(***************************************************************************)
(* Properties of scopes and locals.                                        *)
(***************************************************************************)
\* C3: end_scope removes exactly the locals declared at the depth being
\* closed and emits one instruction per removed local, CLOSE_UPVALUE for a
\* captured one and POP otherwise, last declared first; locals of outer
\* depths stay and nothing is emitted for them.
C3_EndScopeEmits ==
    [][ret'.op = "end_scope" =>
        LET n       == Len(contexts)
            l       == contexts[n].locals
            Outer(x) == x.depth # l.scope_depth
            Closed(x) == x.depth = l.scope_depth
            gone    == SelectSeq(l.stack, Closed)
            c       == module.chunks[contexts[n].chunk_index + 1]
            c2      == module'.chunks[contexts[n].chunk_index + 1]
        IN  /\ Len(contexts') = n
            /\ contexts'[n].locals.stack = SelectSeq(l.stack, Outer)
            /\ c2.len = c.len + Len(gone)
            /\ \A pc \in 0..(c.len - 1) : get_u8(c2, pc) = get_u8(c, pc)
            /\ \A m \in 1..Len(gone) :
                  get_u8(c2, c.len + m - 1) =
                     IF gone[Len(gone) + 1 - m].is_upvalue
                     THEN OP_CLOSE_UPVALUE ELSE OP_POP
            /\ \A x \in 1..Len(module.chunks) :
                  x # contexts[n].chunk_index + 1 =>
                     module'.chunks[x] = module.chunks[x]
    ]_vars

\* a scope closed over a function local and a captured variable: POP for
\* the function, then CLOSE_UPVALUE for the variable declared before it
C3_Witness ==
    /\ ret.op = "end_scope"
    /\ CurChunk.len >= 2
    /\ get_u8(CurChunk, CurChunk.len - 2) = OP_POP
    /\ get_u8(CurChunk, CurChunk.len - 1) = OP_CLOSE_UPVALUE

\* C4: resolve_local(name) decides on the most recently declared local of
\* that name in the current context: initialized, its slot and no
\* diagnostic; not initialized, one "Local not initialized" diagnostic and
\* no slot, whatever outer local has the name; no such local, no slot and
\* no diagnostic.
C4_ResolveLocal ==
    [][ret'.op = "resolve_local" =>
        LET st    == contexts[Len(contexts)].locals.stack
            named == {i \in 1..Len(st) : st[i].name = ret'.name}
        IN  IF named = {}
            THEN ret'.value = NoneOpt /\ errors' = errors
            ELSE IF st[Max(named)].initialized
            THEN ret'.value = Some(st[Max(named)].slot) /\ errors' = errors
            ELSE /\ ret'.value = NoneOpt
                 /\ errors' = Append(errors, "Local not initialized")
    ]_vars

\* the diagnostic given while an outer initialized local of the name exists
C4_Witness ==
    /\ ret.op = "resolve_local"
    /\ ~ret.value.some
    /\ errors = <<"Local not initialized">>
    /\ \E i \in 1..Len(Cur.locals.stack) :
          /\ Cur.locals.stack[i].name = ret.name
          /\ Cur.locals.stack[i].initialized

(***************************************************************************)
(* Properties of the CLOSURE instruction.                                  *)
(***************************************************************************)
\* bytes a function declaration adds after CLOSURE <index>: DEFINE_GLOBAL
\* <identifier> at global scope, nothing inside a scope
AfterClosure(outer) == IF is_scoped(outer) THEN 0 ELSE 5

InitChunk ==
    /\ chunk = Chunk_new
    /\ patches = <<>>
    /\ finished = FALSE
    /\ patched = <<>>
    /\ module = Module_new /\ contexts = <<>> /\ errors = <<>> /\ fn_names = <<>>
    /\ captures = <<>> /\ ops = 0 /\ ret = Other /\ result = NoneOpt
    /\ heap = [objects |-> <<>>, buffers |-> {}] /\ next_id = 1 /\ marks = {}
    /\ finalizers = <<>> /\ stack = <<>> /\ dropped = <<>> /\ gc_log = NoneOpt
    /\ vm = NoneOpt
    /\ pool = NoneOpt /\ interner = NoneOpt /\ tab = NoneOpt /\ collector = NoneOpt
    /\ session = NoneOpt
    /\ parser = NoneOpt /\ offsets = NoneOpt /\ pair = NoneOpt

\* a jump opcode with its 2-byte offset slot still 0: the chunk and the
\* index add_i16 returned (the position of the slot)
add_jump(c, opcode) ==
    LET c1 == add_i16(add_u8(c, opcode), 0)
    IN  [chunk |-> c1, index |-> c1.len - 2]

\* what the log keeps of patch_instruction_to(index, to); current says the
\* call came through patch_instruction
Patch(index, to, current) == [index |-> index, to |-> to, current |-> current]

\* straight-line code of n one-byte instructions
EmitBody(n) ==
    /\ ~finished
    /\ ops < MaxBodies
    /\ ops' = ops + 1
    /\ chunk' = add_fill(chunk, n)
    /\ UNCHANGED <<patches, finished, patched>>
    /\ UNCHANGED <<module, contexts, errors, fn_names, captures, ret, result>>
    /\ UNCHANGED <<gvars, ivars, pvars, svars>>

OpenJumps == Len(patched) + Len(patches)

\* `if (false)`: FALSE; JUMP_IF_FALSE <slot>; POP
BeginIf ==
    /\ ~finished
    /\ OpenJumps < MaxJumps
    /\ LET j == add_jump(add_u8(chunk, OP_FALSE), OP_JUMP_IF_FALSE) IN
        /\ chunk' = add_u8(j.chunk, OP_POP)
        /\ patches' = Append(patches, [kind |-> "if", index |-> j.index, start |-> 0])
    /\ UNCHANGED <<finished, patched>>
    /\ UNCHANGED <<cvars, gvars, ivars, pvars, svars>>

\* `else`: JUMP <slot> ends the then-branch, the JUMP_IF_FALSE is patched
\* to land on the POP that starts the else-branch
Else ==
    /\ ~finished
    /\ patches # <<>>
    /\ patches[Len(patches)].kind = "if"
    /\ OpenJumps < MaxJumps
    /\ LET top == patches[Len(patches)]
           j   == add_jump(chunk, OP_JUMP)
       IN  /\ chunk' = add_u8(patch_instruction(j.chunk, top.index), OP_POP)
           /\ patched' = Append(patched,
                               Patch(top.index, instruction_index(j.chunk), TRUE))
           /\ patches' = [patches EXCEPT ![Len(patches)] =
                              [kind |-> "else", index |-> j.index, start |-> 0]]
    /\ UNCHANGED finished
    /\ UNCHANGED <<cvars, gvars, ivars, pvars, svars>>

\* the end of an if statement: its open jump is patched to the current end
EndIf ==
    /\ ~finished
    /\ patches # <<>>
    /\ patches[Len(patches)].kind \in {"if", "else"}
    /\ LET top == patches[Len(patches)] IN
        /\ chunk' = patch_instruction(chunk, top.index)
        /\ patched' = Append(patched, Patch(top.index, instruction_index(chunk), TRUE))
    /\ patches' = SubSeq(patches, 1, Len(patches) - 1)
    /\ UNCHANGED finished
    /\ UNCHANGED <<cvars, gvars, ivars, pvars, svars>>

\* `while (true)`: the loop start is recorded, then TRUE; JUMP_IF_FALSE
\* <slot>; POP
BeginWhile ==
    /\ ~finished
    /\ OpenJumps + 1 < MaxJumps
    /\ LET j == add_jump(add_u8(chunk, OP_TRUE), OP_JUMP_IF_FALSE) IN
        /\ chunk' = add_u8(j.chunk, OP_POP)
        /\ patches' = Append(patches, [kind |-> "while", index |-> j.index,
                                       start |-> instruction_index(chunk)])
    /\ UNCHANGED <<finished, patched>>
    /\ UNCHANGED <<cvars, gvars, ivars, pvars, svars>>

\* the end of a while body: JUMP <slot> patched back to the loop start, the
\* JUMP_IF_FALSE patched to land on the POP after the loop
EndWhile ==
    /\ ~finished
    /\ patches # <<>>
    /\ patches[Len(patches)].kind = "while"
    /\ LET top == patches[Len(patches)]
           j   == add_jump(chunk, OP_JUMP)
           c1  == patch_instruction_to(j.chunk, j.index, top.start)
           c2  == patch_instruction(c1, top.index)
       IN  /\ chunk' = add_u8(c2, OP_POP)
           /\ patched' = patched \o <<Patch(j.index, top.start, FALSE),
                                      Patch(top.index, instruction_index(c1), TRUE)>>
    /\ patches' = SubSeq(patches, 1, Len(patches) - 1)
    /\ UNCHANGED finished
    /\ UNCHANGED <<cvars, gvars, ivars, pvars, svars>>

\* the end of the program: RETURN_TOP closes the chunk
Finish ==
    /\ ~finished
    /\ patches = <<>>
    /\ chunk' = add_u8(chunk, OP_RETURN_TOP)
    /\ finished' = TRUE
    /\ UNCHANGED <<patches, patched>>
    /\ UNCHANGED <<cvars, gvars, ivars, pvars, svars>>

NextChunk ==
    \/ \E n \in {ShortBody, LongBody} : EmitBody(n)
    \/ BeginIf
    \/ Else
    \/ EndIf
    \/ BeginWhile
    \/ EndWhile
    \/ Finish

SpecChunk == InitChunk /\ [][NextChunk]_vars

\* the target the stored operand of the jump with offset slot `index` encodes
Target(index) == absolute(index - 1, get_i16(chunk, index))

\* C7: patch_instruction(index) stores an offset with op + 3 + offset equal
\* to the chunk length at the moment of patching, and
\* patch_instruction_to(index, to) one with op + 3 + offset = to, forwards
\* and backwards, op = index - 1 being the jump's opcode.
C7_PatchedOffset ==
    \A i \in 1..Len(patched) :
        /\ get_u8(chunk, patched[i].index - 1) \in {OP_JUMP, OP_JUMP_IF_FALSE}
        /\ Target(patched[i].index) = patched[i].to

\* C8: in a finished chunk the target origin + 3 + offset of every JUMP and
\* JUMP_IF_FALSE is a position within the chunk, whatever the distance.
C8_TargetInChunk ==
    finished =>
        \A i \in 1..Len(patched) :
            /\ Target(patched[i].index) >= 0
            /\ Target(patched[i].index) < chunk.len

(***************************************************************************)
(* lox-gc and the traced types of lox-vm.  A pointer is the id of the      *)
(* managed object it points into and the part of it: the object itself or  *)
(* the buffer of one of its Arrays.  An id is never given out twice.       *)
(***************************************************************************)
Nil     == [obj |-> FALSE, id |-> 0]
Obj(id) == [obj |-> TRUE, id |-> id]

Ptr(id)          == [id |-> id, part |-> "object"]
BufPtr(id, part) == [id |-> id, part |-> part]

INITIAL_CAPACITY == 8

\* an Array: its buffer, capacity and elements
Array_of(ptr, cap, items) == [ptr |-> ptr, cap |-> cap, items |-> items]

\* heap::Heap
Heap_start_gc(m)         == {}
Heap_mark(m, ptr)        == m \cup {ptr}
Heap_is_marked(m, ptr)   == ptr \in m
Heap_sweep(h, m) ==
    [objects |-> [id \in {i \in DOMAIN h.objects : Ptr(i) \in m} |-> h.objects[id]],
     buffers |-> h.buffers \cap m]

Array_mark(m, array) == IF array.cap = 0 THEN m ELSE Heap_mark(m, array.ptr)

Array_trace(m, array) == Array_mark(m, array)

LoxString_trace(m, string) == Array_mark(m, string.vec)

Table_trace(m, table) == Array_trace(m, table.entries)

Import_trace(m, import) ==
    LET m1 == LoxString_trace(m, import.name)
        m2 == Table_trace(m1, import.globals)
        m3 == Array_mark(m2, import.symbols)
    IN  Array_trace(m3, import.strings)

RECURSIVE Gc_trace(_, _, _)

Value_trace(m, objs, value) ==
    IF value.obj THEN Gc_trace(m, objs, value.id) ELSE m

BoundMethod_trace(m, objs, bound) ==
    Value_trace(Gc_trace(m, objs, bound.receiver), objs, bound.method)

\* dyn_data().trace: the Trace impl of the object's type
dyn_trace(m, objs, id) ==
    CASE objs[id].kind = "Import"      -> Import_trace(m, objs[id])
      [] objs[id].kind = "LoxString"   -> LoxString_trace(m, objs[id])
      [] objs[id].kind = "BoundMethod" -> BoundMethod_trace(m, objs, objs[id])

Gc_trace(m, objs, id) ==
    IF Heap_is_marked(m, Ptr(id)) THEN m
    ELSE dyn_trace(Heap_mark(m, Ptr(id)), objs, id)

\* Stack::trace: the values of index i .. len - 1
RECURSIVE Stack_trace(_, _, _, _)
Stack_trace(m, objs, st, i) ==
    IF i >= Len(st) THEN m
    ELSE Stack_trace(Value_trace(m, objs, st[i + 1]), objs, st, i + 1)

\* std::mem::needs_drop::<T>(): Import owns a Module (Vecs and Strings);
\* LoxString and BoundMethod are pointers and integers
needs_drop(kind) == kind = "Import"

\* Vec::swap_remove
swap_remove(v, index) ==
    IF index = Len(v) - 1 THEN SubSeq(v, 1, Len(v) - 1)
    ELSE [i \in 1..(Len(v) - 1) |-> IF i = index + 1 THEN v[Len(v)] ELSE v[i]]

RECURSIVE finalize_loop_skip(_, _, _, _)
finalize_loop_skip(fin, index, m, drops) ==
    IF index >= Len(fin) THEN [finalizers |-> fin, drops |-> drops]
    ELSE IF Heap_is_marked(m, fin[index + 1])
         THEN finalize_loop_skip(fin, index + 1, m, drops)
         ELSE finalize_loop_skip(swap_remove(fin, index), index + 1, m,
                                 Append(drops, fin[index + 1].id))

\* the loop of force_finalize from `index`: the list afterwards and the
\* objects whose destructor ran, in order
RECURSIVE finalize_loop(_, _, _, _)
finalize_loop(fin, index, m, drops) ==
    IF index >= Len(fin) THEN [finalizers |-> fin, drops |-> drops]
    ELSE IF Heap_is_marked(m, fin[index + 1])
         THEN finalize_loop(fin, index + 1, m, drops)
         ELSE finalize_loop(swap_remove(fin, index), index, m,
                            Append(drops, fin[index + 1].id))

force_finalize_none(fin, m) == [finalizers |-> fin, drops |-> <<>>]

force_finalize(fin, m) == finalize_loop(fin, 0, m, <<>>)

\* ManagedHeap::finalize
finalize(fin, gc) == Append(fin, gc)

\* ManagedHeap::manage: the allocation written, registered when its type
\* needs a destructor
manage(h, fin, id, data) ==
    [heap |-> [h EXCEPT !.objects = (id :> data) @@ @],
     finalizers |-> IF needs_drop(data.kind) THEN finalize(fin, Ptr(id)) ELSE fin]

\* lox_gc::alloc for the buffer of an Array
alloc(h, ptr) == [h EXCEPT !.buffers = @ \cup {ptr}]

\* ManagedHeap::force_collect(roots) with the VM stack as the one root: the
\* heap, marks and finalizers afterwards, the destructors run, and the
\* steps in the order they happened
force_collect(h, fin, st) ==
    LET m0 == Heap_start_gc({})
        m1 == Stack_trace(m0, h.objects, st, 0)
        f  == force_finalize(fin, m1)
    IN  [heap       |-> Heap_sweep(h, m1),
         marks      |-> m1,
         finalizers |-> f.finalizers,
         drops      |-> f.drops,
         dangling   |-> {id \in {f.drops[i] : i \in 1..Len(f.drops)} :
                            id \notin DOMAIN h.objects},
         events     |-> <<"start_gc", "trace">>
                          \o [i \in 1..Len(f.drops) |-> "drop"]
                          \o <<"sweep">>]

(***************************************************************************)
(* The heap machine: the VM allocating strings, imports and bound methods, *)
(* moving them between its stack and the globals of an import, and the     *)
(* collector run with the stack as root.                                   *)
(***************************************************************************)
InitHeap ==
    /\ heap = [objects |-> <<>>, buffers |-> {}]
    /\ next_id = 1
    /\ marks = {}
    /\ finalizers = <<>>
    /\ stack = <<>>
    /\ dropped = <<>>
    /\ gc_log = NoneOpt
    /\ module = Module_new /\ contexts = <<>> /\ errors = <<>> /\ fn_names = <<>>
    /\ captures = <<>> /\ ops = 0 /\ ret = Other /\ result = NoneOpt
    /\ chunk = Chunk_new /\ patches = <<>> /\ finished = FALSE /\ patched = <<>>
    /\ vm = NoneOpt
    /\ pool = NoneOpt /\ interner = NoneOpt /\ tab = NoneOpt /\ collector = NoneOpt
    /\ session = NoneOpt
    /\ parser = NoneOpt /\ offsets = NoneOpt /\ pair = NoneOpt

\* LoxString::from(&str): a string with its bytes in a buffer of its own
LoxString_from(id) ==
    [kind |-> "LoxString", vec |-> Array_of(BufPtr(id, "vec"), 1, <<>>)]

\* a string made at run time, managed and pushed
ManageString ==
    /\ next_id <= MaxObjects
    /\ Len(stack) < MaxStack
    /\ LET r == manage(alloc(heap, BufPtr(next_id, "vec")), finalizers, next_id,
                       LoxString_from(next_id))
       IN  heap' = r.heap /\ finalizers' = r.finalizers
    /\ next_id' = next_id + 1
    /\ stack' = Append(stack, Obj(next_id))
    /\ gc_log' = NoneOpt
    /\ UNCHANGED <<marks, dropped>>
    /\ UNCHANGED <<cvars, kvars, ivars, pvars, svars>>

\* Import::with_module for a module of k string constants and no
\* identifiers: every constant managed as a LoxString and kept in the
\* strings Array; then the Import itself is managed and pushed (IMPORT)
RECURSIVE manage_strings(_, _, _, _)
manage_strings(h, fin, id, k) ==
    IF k = 0 THEN [heap |-> h, finalizers |-> fin]
    ELSE LET r == manage(alloc(h, BufPtr(id, "vec")), fin, id, LoxString_from(id))
         IN  manage_strings(r.heap, r.finalizers, id + 1, k - 1)

Import_with_module(id, k) ==
    [kind    |-> "Import",
     name    |-> [vec |-> Array_of(BufPtr(id, "name"), 1, <<>>)],
     globals |-> [entries |-> Array_of(BufPtr(id, "entries"), INITIAL_CAPACITY, <<>>)],
     symbols |-> Array_of(BufPtr(id, "symbols"), 0, <<>>),
     strings |-> Array_of(BufPtr(id, "strings"), k, [i \in 1..k |-> id - k + i - 1])]

ManageImport(k) ==
    /\ next_id + k <= MaxObjects
    /\ Len(stack) < MaxStack
    /\ LET s  == manage_strings(heap, finalizers, next_id, k)
           id == next_id + k
           h1 == alloc(alloc(s.heap, BufPtr(id, "name")), BufPtr(id, "entries"))
           h2 == IF k = 0 THEN h1 ELSE alloc(h1, BufPtr(id, "strings"))
           r  == manage(h2, s.finalizers, id, Import_with_module(id, k))
       IN  /\ heap' = r.heap
           /\ finalizers' = r.finalizers
           /\ stack' = Append(stack, Obj(id))
    /\ next_id' = next_id + k + 1
    /\ gc_log' = NoneOpt
    /\ UNCHANGED <<marks, dropped>>
    /\ UNCHANGED <<cvars, kvars, ivars, pvars, svars>>

\* Table::set through Import::set_global: the value joins the entries
Table_set(table, value) ==
    [table EXCEPT !.entries.items = Append(@, value)]

\* DEFINE_GLOBAL: the top of the stack is popped into the globals of the
\* import at stack[i]
DefineGlobal(i) ==
    /\ i < Len(stack)
    /\ stack[i].obj
    /\ heap.objects[stack[i].id].kind = "Import"
    /\ Len(heap.objects[stack[i].id].globals.entries.items) < MaxGlobals
    /\ heap' = [heap EXCEPT !.objects[stack[i].id].globals =
                   Table_set(@, stack[Len(stack)])]
    /\ stack' = SubSeq(stack, 1, Len(stack) - 1)
    /\ gc_log' = NoneOpt
    /\ UNCHANGED <<next_id, marks, finalizers, dropped>>
    /\ UNCHANGED <<cvars, kvars, ivars, pvars, svars>>

\* a method bound to the receiver on top of the stack: the BoundMethod is
\* managed and takes the receiver's place
Bind ==
    /\ next_id <= MaxObjects
    /\ stack # <<>>
    /\ stack[Len(stack)].obj
    /\ \E method \in {Nil} \cup {stack[j] : j \in 1..(Len(stack) - 1)} :
         LET r == manage(heap, finalizers, next_id,
                         [kind |-> "BoundMethod",
                          receiver |-> stack[Len(stack)].id,
                          method |-> method])
         IN  heap' = r.heap /\ finalizers' = r.finalizers
    /\ stack' = [stack EXCEPT ![Len(stack)] = Obj(next_id)]
    /\ next_id' = next_id + 1
    /\ gc_log' = NoneOpt
    /\ UNCHANGED <<marks, dropped>>
    /\ UNCHANGED <<cvars, kvars, ivars, pvars, svars>>

\* POP
Pop ==
    /\ stack # <<>>
    /\ stack' = SubSeq(stack, 1, Len(stack) - 1)
    /\ gc_log' = NoneOpt
    /\ UNCHANGED <<heap, next_id, marks, finalizers, dropped>>
    /\ UNCHANGED <<cvars, kvars, ivars, pvars, svars>>

ForceCollect ==
    /\ LET r == force_collect(heap, finalizers, stack) IN
        /\ heap' = r.heap
        /\ marks' = r.marks
        /\ finalizers' = r.finalizers
        /\ dropped' = dropped \o r.drops
        /\ gc_log' = [some |-> TRUE, registered |-> finalizers, drops |-> r.drops,
                      dangling |-> r.dangling, events |-> r.events]
    /\ UNCHANGED <<next_id, stack>>
    /\ UNCHANGED <<cvars, kvars, ivars, pvars, svars>>

NextHeap ==
    \/ ManageString
    \/ \E k \in 0..MaxStrings : ManageImport(k)
    \/ \E i \in 1..MaxStack : DefineGlobal(i)
    \/ Bind
    \/ Pop
    \/ ForceCollect

SpecHeap == InitHeap /\ [][NextHeap]_vars

Range(seq) == {seq[i] : i \in 1..Len(seq)}

\* the objects an object holds a Gc pointer or an object Value to
Children(o) ==
    CASE o.kind = "Import" ->
            Range(o.strings.items)
              \cup {v.id : v \in {w \in Range(o.globals.entries.items) : w.obj}}
      [] o.kind = "BoundMethod" ->
            {o.receiver} \cup (IF o.method.obj THEN {o.method.id} ELSE {})
      [] o.kind = "LoxString" -> {}

RECURSIVE ReachableFrom(_, _)
ReachableFrom(objs, ids) ==
    LET next == ids \cup UNION {Children(objs[id]) : id \in ids \cap DOMAIN objs}
    IN  IF next = ids THEN ids ELSE ReachableFrom(objs, next)

\* the objects reachable from the roots (the values on the stack)
Reachable ==
    ReachableFrom(heap.objects, {v.id : v \in {w \in Range(stack) : w.obj}})

\* C5: after force_collect(roots) every object reachable from the roots is
\* marked, was not finalized and is not swept, also when it is reachable
\* only through the elements of an Array, the values of a Table or an
\* Import's strings.
C5_ReachableMarked ==
    gc_log.some =>
        \A id \in Reachable :
            /\ Ptr(id) \in marks
            /\ id \in DOMAIN heap.objects
            /\ id \notin Range(gc_log.drops)

\* C6: in a force_collect the destructor of a registered object runs iff
\* the object was not marked by the tracing of the roots; it runs after the
\* roots are traced and before the sweep, on an object still allocated; the
\* object leaves the finalizer list then and a marked object stays in it;
\* over all collections no destructor runs twice.
C6_Finalizers ==
    /\ gc_log.some =>
        /\ \A p \in Range(gc_log.registered) :
              (p.id \in Range(gc_log.drops)) <=> (p \notin marks)
        /\ \A id \in Range(gc_log.drops) : Ptr(id) \in Range(gc_log.registered)
        /\ gc_log.dangling = {}
        /\ \A i \in 1..Len(gc_log.events) :
              gc_log.events[i] = "drop" =>
                 \A j \in 1..Len(gc_log.events) :
                    /\ gc_log.events[j] \in {"start_gc", "trace"} => j < i
                    /\ gc_log.events[j] = "sweep" => j > i
        /\ Range(finalizers) =
              Range(gc_log.registered) \ {Ptr(id) : id \in Range(gc_log.drops)}
        /\ Len(finalizers) = Len(gc_log.registered) - Len(gc_log.drops)
    /\ \A i, j \in 1..Len(dropped) : dropped[i] = dropped[j] => i = j

\* a second collection that ran one destructor and kept a marked object in
\* the list
C6_Witness ==
    /\ gc_log.some
    /\ Len(gc_log.drops) >= 1
    /\ Len(dropped) > Len(gc_log.drops)
    /\ \E p \in Range(finalizers) : p \in marks

(***************************************************************************)
(* The import machine: the block                                           *)
(*     { var a0 = 0; ...; import "foo" for x; print x; }                   *)
(* compiled as the compiler's tests fix it (tests.rs,                      *)
(* complex_local_import) and run instruction by instruction on the value   *)
(* stack of the top-level call frame.                                      *)
(***************************************************************************)
Number(n)      == [tag |-> "Number", v |-> n]
ImportValue    == [tag |-> "Import", v |-> 0]
ClosureValue   == [tag |-> "Closure", v |-> 0]

\* Stack (stack.rs)
Stack_push(st, value) == Append(st, value)
Stack_pop(st)         == [stack |-> SubSeq(st, 1, Len(st) - 1), value |-> st[Len(st)]]
Stack_get(st, index)  == st[index + 1]
Stack_peek_n(st, n)   == st[Len(st) - n]

\* the locals of the top-level context inside the block, after n variables
\* and then x have been declared and initialized
RECURSIVE declare_locals(_, _)
declare_locals(l, names) ==
    IF names = <<>> THEN l
    ELSE declare_locals(Locals_mark_initialized(Locals_insert(l, Head(names))),
                        Tail(names))

PreNames(n) == [i \in 1..n |-> <<"a0", "a1", "a2", "a3">>[i]]

BlockLocals(n) ==
    declare_locals(Locals_begin_scope(with_context(<<>>, 0, "TopLevel")[1].locals),
                   PreNames(n) \o <<"x">>)

\* the slot the compiler gives x
SlotOfX(n) == Context_resolve_local([locals |-> BlockLocals(n)], "x").slot

RECURSIVE emit_vars(_, _)
emit_vars(c, n) ==
    IF n = 0 THEN c ELSE emit_vars(add_u16(add_u8(c, OP_NUMBER), 0), n - 1)

\* import "foo" for x; inside a scope: IMPORT <string>; IMPORT_GLOBAL
\* <identifier>; POP
emit_local_import(c) ==
    add_u8(add_u32(add_u8(add_u32(add_u8(c, OP_IMPORT), 0), OP_IMPORT_GLOBAL), 0),
           OP_POP)

\* print x;
emit_print_local(c, slot) ==
    add_u8(add_u32(add_u8(c, OP_GET_LOCAL), slot), OP_PRINT)

\* the whole block with n variables before the import
compile_block(n) ==
    LET c1 == emit_local_import(emit_vars(Chunk_new, n))
        c2 == emit_print_local(c1, SlotOfX(n))
        c3 == emit_scope_exit(c2, Locals_end_scope(BlockLocals(n)).removed)
    IN  [chunk |-> add_u8(c3, OP_RETURN_TOP), after_import |-> c1.len]

InitImport ==
    /\ \E n \in 0..MaxPreLocals : \E x \in 1..MaxValue :
         vm = [some |-> TRUE,
               chunk |-> compile_block(n).chunk,
               after_import |-> compile_block(n).after_import,
               x_slot |-> SlotOfX(n),
               x_global |-> Number(x),
               ip |-> 0,
               base |-> 0,
               stack |-> <<ClosureValue>>,
               printed |-> <<>>,
               done |-> FALSE]
    /\ module = Module_new /\ contexts = <<>> /\ errors = <<>> /\ fn_names = <<>>
    /\ captures = <<>> /\ ops = 0 /\ ret = Other /\ result = NoneOpt
    /\ chunk = Chunk_new /\ patches = <<>> /\ finished = FALSE /\ patched = <<>>
    /\ heap = [objects |-> <<>>, buffers |-> {}] /\ next_id = 1 /\ marks = {}
    /\ finalizers = <<>> /\ stack = <<>> /\ dropped = <<>> /\ gc_log = NoneOpt
    /\ pool = NoneOpt /\ interner = NoneOpt /\ tab = NoneOpt /\ collector = NoneOpt
    /\ session = NoneOpt
    /\ parser = NoneOpt /\ offsets = NoneOpt /\ pair = NoneOpt

\* the VM is about to dispatch `opcode`
At(opcode) ==
    /\ vm.some
    /\ ~vm.done
    /\ get_u8(vm.chunk, vm.ip) = opcode

\* NUMBER u16: push the constant (every variable of the block is 0)
ExecNumber ==
    /\ At(OP_NUMBER)
    /\ vm' = [vm EXCEPT !.stack = Stack_push(@, Number(0)), !.ip = @ + 3]
    /\ UNCHANGED <<cvars, kvars, gvars, pvars, svars>>

\* IMPORT u32: the module is loaded and the Import pushed
ExecImport ==
    /\ At(OP_IMPORT)
    /\ vm' = [vm EXCEPT !.stack = Stack_push(@, ImportValue), !.ip = @ + 5]
    /\ UNCHANGED <<cvars, kvars, gvars, pvars, svars>>

\* IMPORT_GLOBAL u32: peek the top (an Import), fetch the global, push
ExecImportGlobal ==
    /\ At(OP_IMPORT_GLOBAL)
    /\ Stack_peek_n(vm.stack, 0) = ImportValue
    /\ vm' = [vm EXCEPT !.stack = Stack_push(@, vm.x_global), !.ip = @ + 5]
    /\ UNCHANGED <<cvars, kvars, gvars, pvars, svars>>

ExecPop ==
    /\ At(OP_POP)
    /\ vm' = [vm EXCEPT !.stack = Stack_pop(@).stack, !.ip = @ + 1]
    /\ UNCHANGED <<cvars, kvars, gvars, pvars, svars>>

\* GET_LOCAL u32: push the value at frame base + slot
ExecGetLocal ==
    /\ At(OP_GET_LOCAL)
    /\ vm' = [vm EXCEPT !.stack = Stack_push(@, Stack_get(vm.stack,
                                       vm.base + get_u32(vm.chunk, vm.ip + 1))),
                        !.ip = @ + 5]
    /\ UNCHANGED <<cvars, kvars, gvars, pvars, svars>>

ExecPrint ==
    /\ At(OP_PRINT)
    /\ vm' = [vm EXCEPT !.stack = Stack_pop(@).stack,
                        !.printed = Append(@, Stack_pop(vm.stack).value),
                        !.ip = @ + 1]
    /\ UNCHANGED <<cvars, kvars, gvars, pvars, svars>>

ExecReturnTop ==
    /\ At(OP_RETURN_TOP)
    /\ vm' = [vm EXCEPT !.done = TRUE]
    /\ UNCHANGED <<cvars, kvars, gvars, pvars, svars>>

NextImport ==
    \/ ExecNumber
    \/ ExecImport
    \/ ExecImportGlobal
    \/ ExecPop
    \/ ExecGetLocal
    \/ ExecPrint
    \/ ExecReturnTop

SpecImport == InitImport /\ [][NextImport]_vars

\* C10: once the code emitted for `import "foo" for x;` in an inner scope
\* has run, the stack slot the compiler assigned to x holds the value of
\* the module's global x, and the Import that IMPORT pushed is no longer on
\* the stack.
C10_LocalImportSlot ==
    (vm.some /\ vm.ip = vm.after_import) =>
        /\ Len(vm.stack) > vm.base + vm.x_slot
        /\ Stack_get(vm.stack, vm.base + vm.x_slot) = vm.x_global
        /\ \A i \in 1..Len(vm.stack) : vm.stack[i] # ImportValue

(***************************************************************************)
(* compile(): the statement compiler working in the TopLevel context, its  *)
(* diagnostics, and the Result returned when the top-level closure ends.   *)
(***************************************************************************)
\* the diagnostics the statement compiler records besides the Compiler's own
OtherDiagnostics == {"Invalid left value", "Duplicate name in scope"}

has_errors_many(errs) == Len(errs) > 1

\* Compiler::has_errors
has_errors(errs) == errs # <<>>

\* the Result compile() returns: Err(into_errors()) or Ok(into_module())
compile_result(m, errs) ==
    IF has_errors(errs)
    THEN [some |-> TRUE, tag |-> "Err", errors |-> errs, module |-> Module_new]
    ELSE [some |-> TRUE, tag |-> "Ok", errors |-> <<>>, module |-> m]

\* add_error called by the statement compiler
AddError(message) ==
    /\ ~result.some
    /\ Len(errors) < MaxDiagnostics
    /\ errors' = add_error(errors, message)
    /\ ret' = Other
    /\ UNCHANGED <<module, contexts, fn_names, captures, ops, result>>
    /\ UNCHANGED <<kvars, gvars, ivars, pvars, svars>>

\* the end of compile(): RETURN_TOP closes chunk 0, the TopLevel context
\* ends and the Result is built
FinishCompile ==
    /\ ~result.some
    /\ Len(contexts) = 1
    /\ ~Pending(Cur)
    /\ Cur.locals.scope_depth = 0
    /\ module' = [module EXCEPT !.chunks[1] = add_u8(@, OP_RETURN_TOP)]
    /\ contexts' = <<>>
    /\ result' = compile_result(module', errors)
    /\ ret' = Other
    /\ UNCHANGED <<errors, fn_names, captures, ops>>
    /\ UNCHANGED <<kvars, gvars, ivars, pvars, svars>>

\* enum ContextType, without TopLevel (opened once, by compile())
InnerContextTypes == {"Function", "Method", "Initializer"}

\* with_context up to the call of f: begin_context adds a chunk and pushes
\* the context, then slot 0 is reserved and marked initialized
OpenContext(context_type) ==
    /\ ~result.some
    /\ ~Pending(Cur)
    /\ ops < MaxOps
    /\ ops' = ops + 1
    /\ contexts' = with_context(contexts, Len(module.chunks), context_type)
    /\ module' = [module EXCEPT !.chunks = Append(@, Chunk_new)]
    /\ captures' = Append(captures, {})
    /\ ret' = Other
    /\ UNCHANGED <<errors, fn_names, result>>
    /\ UNCHANGED <<kvars, gvars, ivars, pvars, svars>>

\* with_context after f returned: end_context pops the context
CloseContext ==
    /\ ~result.some
    /\ Len(contexts) > 1
    /\ ~Pending(Cur)
    /\ contexts' = SubSeq(contexts, 1, Len(contexts) - 1)
    /\ captures' = SubSeq(captures, 1, Len(captures) - 1)
    /\ ret' = Other
    /\ UNCHANGED <<module, errors, fn_names, ops, result>>
    /\ UNCHANGED <<kvars, gvars, ivars, pvars, svars>>

\* the names an expression can mention
CompileNames == Names \cup {"this"}

NextCompile ==
    \/ BeginScope
    \/ EndScope
    \/ \E name \in Names : AddLocal(name)
    \/ MarkLocalInitialized
    \/ \E name \in Names : ResolveLocal(name)
    \/ \E message \in OtherDiagnostics : AddError(message)
    \/ FinishCompile

SpecCompile == InitCompiler /\ [][NextCompile]_vars

\* contexts opened and closed inside the TopLevel context, with their locals
NextContext ==
    \/ BeginScope
    \/ EndScope
    \/ \E name \in Names : AddLocal(name)
    \/ MarkLocalInitialized
    \/ \E name \in CompileNames : ResolveLocal(name)
    \/ \E context_type \in InnerContextTypes : OpenContext(context_type)
    \/ CloseContext

SpecContext == InitCompiler /\ [][NextContext]_vars

\* C11: compile returns Err(list) exactly when a diagnostic was recorded
\* with add_error during the run, the list being every recorded diagnostic
\* in the order recorded and never empty; it returns Ok(module) exactly
\* when none was recorded.
C11_CompileResult ==
    result.some =>
        /\ (result.tag = "Err") <=> (errors # <<>>)
        /\ (result.tag = "Ok") <=> (errors = <<>>)
        /\ result.tag = "Err" => (result.errors = errors /\ result.errors # <<>>)
        /\ result.tag = "Ok" => result.module = module

\* a run that recorded the Compiler's own diagnostic and then another one
C11_Witness ==
    /\ result.some
    /\ result.tag = "Err"
    /\ result.errors = <<"Local not initialized", "Invalid left value">>

\* C12: opening a context reserves local slot 0, already initialized,
\* named "" in a Function context, "this" in Method and Initializer contexts
\* and "" (an unnamed reserve) in the TopLevel context; user locals start at
\* slot 1 in every context.
C12_ReservedSlot ==
    \A i \in 1..Len(contexts) :
        LET locals == contexts[i].locals.stack
            t      == contexts[i].context_type
        IN  /\ Len(locals) >= 1
            /\ locals[1].slot = 0
            /\ locals[1].initialized
            /\ locals[1].name = (IF t \in {"Method", "Initializer"} THEN "this" ELSE "")
            /\ \A j \in 2..Len(locals) : locals[j].slot >= 1

(***************************************************************************)
(* Constant pools: Compiler::add_number / add_string / add_identifier over *)
(* Module's vectors and the Compiler's HashMaps.                           *)
(***************************************************************************)
\* an f64 by its IEEE-754 fields: sign bit, 11-bit exponent, and the upper
\* 20 and lower 32 bits of the fraction
F64(sign, exp, frac_hi) ==
    [sign |-> sign, exp |-> exp, frac_hi |-> frac_hi, frac_lo |-> 0]

\* 0.0, -0.0, 1.0 and the quiet NaN
Floats == {F64(0, 0, 0), F64(1, 0, 0), F64(0, 1023, 0), F64(0, 2047, 524288)}

\* f64::to_bits: the 64 bits as three words of 12, 20 and 32 bits
to_bits(value) == <<value.sign * 2048 + value.exp, value.frac_hi, value.frac_lo>>

is_nan(value) == value.exp = 2047 /\ (value.frac_hi # 0 \/ value.frac_lo # 0)

is_zero(value) == value.exp = 0 /\ value.frac_hi = 0 /\ value.frac_lo = 0

\* == on f64: no NaN equals anything, the two zeroes are equal
f64_eq(a, b) ==
    /\ ~is_nan(a)
    /\ ~is_nan(b)
    /\ (a = b \/ (is_zero(a) /\ is_zero(b)))

PoolStrings == {"s", "t"}

\* HashMap::get on a map kept as a set of <<key, index>> pairs
HashMap_get(map, key) ==
    IF \E e \in map : e[1] = key
    THEN Some((CHOOSE e \in map : e[1] = key)[2])
    ELSE NoneOpt

\* Module::add_number / add_string / add_identifier: push, len() - 1
Module_add(values, value) == [values |-> Append(values, value), index |-> Len(values)]

add_number_nodedup(p, value) ==
    LET a == Module_add(p.numbers, value)
    IN  [p EXCEPT !.numbers = a.values,
                  !.number_map = @ \cup {<<to_bits(value), a.index>>},
                  !.index = a.index]

add_number(p, value) ==
    LET found == HashMap_get(p.number_map, to_bits(value))
        a     == Module_add(p.numbers, value)
    IN  IF found.some
        THEN [p EXCEPT !.index = found.v]
        ELSE [p EXCEPT !.numbers = a.values,
                       !.number_map = @ \cup {<<to_bits(value), a.index>>},
                       !.index = a.index]

add_string(p, value) ==
    LET found == HashMap_get(p.string_map, value)
        a     == Module_add(p.strings, value)
    IN  IF found.some
        THEN [p EXCEPT !.index = found.v]
        ELSE [p EXCEPT !.strings = a.values,
                       !.string_map = @ \cup {<<value, a.index>>},
                       !.index = a.index]

Compiler_add_identifier(p, identifier) ==
    LET found == HashMap_get(p.identifier_map, identifier)
        a     == Module_add(p.identifiers, identifier)
    IN  IF found.some
        THEN [p EXCEPT !.index = found.v]
        ELSE [p EXCEPT !.identifiers = a.values,
                       !.identifier_map = @ \cup {<<identifier, a.index>>},
                       !.index = a.index]

\* Compiler::new(): empty pools and maps; index is what the last call returned
InitPool ==
    /\ pool = [some |-> TRUE, numbers |-> <<>>, strings |-> <<>>, identifiers |-> <<>>,
               number_map |-> {}, string_map |-> {}, identifier_map |-> {},
               kind |-> "", value |-> "", index |-> 0, calls |-> 0]
    /\ interner = NoneOpt /\ tab = NoneOpt /\ collector = NoneOpt /\ session = NoneOpt
    /\ module = Module_new /\ contexts = <<>> /\ errors = <<>> /\ fn_names = <<>>
    /\ captures = <<>> /\ ops = 0 /\ ret = Other /\ result = NoneOpt
    /\ chunk = Chunk_new /\ patches = <<>> /\ finished = FALSE /\ patched = <<>>
    /\ heap = [objects |-> <<>>, buffers |-> {}] /\ next_id = 1 /\ marks = {}
    /\ finalizers = <<>> /\ stack = <<>> /\ dropped = <<>> /\ gc_log = NoneOpt
    /\ vm = NoneOpt
    /\ parser = NoneOpt /\ offsets = NoneOpt /\ pair = NoneOpt

AddNumber(value) ==
    /\ pool.calls < MaxPoolCalls
    /\ pool' = [add_number(pool, value) EXCEPT !.kind = "number", !.value = value,
                                               !.calls = @ + 1]
    /\ UNCHANGED <<svars, cvars, kvars, gvars, ivars, interner, tab, collector, session>>

AddString(value) ==
    /\ pool.calls < MaxPoolCalls
    /\ pool' = [add_string(pool, value) EXCEPT !.kind = "string", !.value = value,
                                               !.calls = @ + 1]
    /\ UNCHANGED <<svars, cvars, kvars, gvars, ivars, interner, tab, collector, session>>

AddIdentifier(identifier) ==
    /\ pool.calls < MaxPoolCalls
    /\ pool' = [Compiler_add_identifier(pool, identifier)
                    EXCEPT !.kind = "identifier", !.value = identifier, !.calls = @ + 1]
    /\ UNCHANGED <<svars, cvars, kvars, gvars, ivars, interner, tab, collector, session>>

NextPool ==
    \/ \E value \in Floats : AddNumber(value)
    \/ \E value \in PoolStrings : AddString(value)
    \/ \E identifier \in Names : AddIdentifier(identifier)

SpecPool == InitPool /\ [][NextPool]_vars

\* the pool a call of that kind works on
PoolOf(p, kind) ==
    IF kind = "number" THEN p.numbers
    ELSE IF kind = "string" THEN p.strings ELSE p.identifiers

\* what one call has to do when `same` decides which values are the same
\* literal: return the first index of a same value and leave the pool, or
\* append and return the previous length; the other pools stay, and no pool
\* holds the same literal twice
PoolCall(same(_, _, _)) ==
    LET before == PoolOf(pool, pool'.kind)
        after  == PoolOf(pool', pool'.kind)
        hits   == {i \in 1..Len(before) : same(pool'.kind, before[i], pool'.value)}
    IN  /\ IF hits # {}
           THEN pool'.index = Min(hits) - 1 /\ after = before
           ELSE pool'.index = Len(before) /\ after = Append(before, pool'.value)
        /\ \A kind \in {"number", "string", "identifier"} :
              /\ kind # pool'.kind => PoolOf(pool', kind) = PoolOf(pool, kind)
              /\ \A i, j \in 1..Len(PoolOf(pool', kind)) :
                    i # j => ~same(kind, PoolOf(pool', kind)[i], PoolOf(pool', kind)[j])

SameBits(kind, a, b) == a = b

SameValue(kind, a, b) == IF kind = "number" THEN f64_eq(a, b) ELSE a = b

\* C13: adding a value that was added before returns the index returned the
\* first time and does not grow the pool, a new value is appended and gets
\* the previous pool length as its index, and no pool holds the same literal
\* twice -- numbers being the same literal when their 64 bits are the same.
C13_PoolDedup == [][pool'.calls # pool.calls => PoolCall(SameBits)]_vars

\* 0.0, -0.0 and 0.0 again: two entries, the third call returns index 0
C13_Witness ==
    /\ pool.some
    /\ pool.numbers = <<F64(0, 0, 0), F64(1, 0, 0)>>
    /\ pool.calls = 3
    /\ pool.kind = "number"
    /\ pool.index = 0

\* C13 as stated, numbers compared with the == of f64
C13_PoolDedupByValue == [][pool'.calls # pool.calls => PoolCall(SameValue)]_vars

(***************************************************************************)
(* lox-vm: Interner (interner.rs).                                         *)
(***************************************************************************)
InternStrings == {"a", "b", "c", "d"}

\* Symbol::invalid()
Symbol_invalid == 0

\* Interner::new(); symbol is what the last intern call returned, `first`
\* lists the distinct strings passed to intern in the order of their first call
Interner_new ==
    [some |-> TRUE, next |-> 1, map |-> {}, symbol |-> Symbol_invalid,
     string |-> "", first |-> <<>>, calls |-> 0]

intern_fresh(i, string) ==
    [i EXCEPT !.symbol = i.next,
              !.next = i.next + 1,
              !.map = {e \in @ : e[1] # string} \cup {<<string, i.next>>}]

\* Interner::intern; next is a u32 that at most MaxInterns increments leave
\* far below u32::MAX
intern(i, string) ==
    LET found == HashMap_get(i.map, string)
    IN  IF found.some
        THEN [i EXCEPT !.symbol = found.v]
        ELSE [i EXCEPT !.symbol = i.next,
                       !.next = i.next + 1,
                       !.map = @ \cup {<<string, i.next>>}]

InitInterner ==
    /\ interner = Interner_new
    /\ pool = NoneOpt /\ tab = NoneOpt /\ collector = NoneOpt /\ session = NoneOpt
    /\ module = Module_new /\ contexts = <<>> /\ errors = <<>> /\ fn_names = <<>>
    /\ captures = <<>> /\ ops = 0 /\ ret = Other /\ result = NoneOpt
    /\ chunk = Chunk_new /\ patches = <<>> /\ finished = FALSE /\ patched = <<>>
    /\ heap = [objects |-> <<>>, buffers |-> {}] /\ next_id = 1 /\ marks = {}
    /\ finalizers = <<>> /\ stack = <<>> /\ dropped = <<>> /\ gc_log = NoneOpt
    /\ vm = NoneOpt
    /\ parser = NoneOpt /\ offsets = NoneOpt /\ pair = NoneOpt

Intern(string) ==
    /\ interner.calls < MaxInterns
    /\ interner' = [intern(interner, string) EXCEPT
                        !.string = string,
                        !.first = IF Has(@, string) THEN @ ELSE Append(@, string),
                        !.calls = @ + 1]
    /\ UNCHANGED <<svars, cvars, kvars, gvars, ivars, pool, tab, collector, session>>

NextInterner == \E string \in InternStrings : Intern(string)

SpecInterner == InitInterner /\ [][NextInterner]_vars

\* C14: interning a string interned before returns the Symbol it received
\* the first time and assigns no new symbol; the k-th distinct string
\* interned receives Symbol(k), counting from 1; two different strings never
\* share a Symbol; Symbol(0) is never returned.
C14_Intern ==
    [][interner'.calls # interner.calls =>
          /\ interner'.symbol = IndexOf(interner'.first, interner'.string) + 1
          /\ Has(interner.first, interner'.string) =>
                (interner'.next = interner.next /\ interner'.map = interner.map)
          /\ interner'.symbol # Symbol_invalid
          /\ \A e, f \in interner'.map : e[2] = f[2] => e[1] = f[1]
          /\ \A k \in 1..Len(interner'.first) :
                HashMap_get(interner'.map, interner'.first[k]) = Some(k)]_vars

\* "a", "b", then "a" again: Symbol(1) is returned and next stays at 3
C14_Witness ==
    /\ interner.some
    /\ interner.first = <<"a", "b">>
    /\ interner.calls = 3
    /\ interner.string = "a"
    /\ interner.symbol = 1
    /\ interner.next = 3

(***************************************************************************)
(* lox-vm: Table (table.rs), an open-addressed map from Symbol to Value.   *)
(***************************************************************************)
\* Symbols that collide in 8 buckets (1, 9, 17 and 8, 16), that wrap around
\* the end (7, 15), and one more
KeyList == <<1, 9, 17, 7, 15, 8, 16, 2, 10>>

TableKeys == {KeyList[i] : i \in 1..Min({MaxKeys, Len(KeyList)})}

\* the values set for a key: two for the first two keys, one for the others
TableValues(key) ==
    IF key \in {KeyList[1], KeyList[2]} THEN {Number(1), Number(2)} ELSE {Number(1)}

\* Entry::new()
Entry_new == [key |-> Symbol_invalid, value |-> Nil]

\* Array::with_contents
with_contents(entry, n) == [i \in 1..n |-> entry]

\* (capacity as f32 * MAX_LOAD) as usize; exact in f32 for the capacities
\* of the model
max_load(capacity) == (capacity * 3) \div 4

\* key.0 as usize & (capacity - 1), capacity a power of two
mask(n, capacity) == n % capacity

find_entry_first(capacity, entries, key) == mask(key, capacity)

RECURSIVE probe(_, _, _, _, _)
\* the loop of find_entry from `index`; a loop that has seen every bucket
\* without returning never returns, which is reported as index = capacity
probe(capacity, entries, key, index, seen) ==
    IF seen = capacity THEN capacity
    ELSE IF entries[index + 1].key = key \/ entries[index + 1].key = Symbol_invalid
         THEN index
         ELSE probe(capacity, entries, key, mask(index + 1, capacity), seen + 1)

find_entry(capacity, entries, key) ==
    probe(capacity, entries, key, mask(key, capacity), 0)

adjust_capacity_same(t) == [t EXCEPT !.max_capacity = max_load(t.capacity)]

RECURSIVE rehash(_, _, _, _)
\* the for loop of adjust_capacity over the old entries from position i
rehash(old, i, new_capacity, new_entries) ==
    IF i > Len(old) THEN new_entries
    ELSE LET new_index == find_entry(new_capacity, new_entries, old[i].key)
         IN  rehash(old, i + 1, new_capacity,
                    [new_entries EXCEPT ![new_index + 1] = old[i]])

adjust_capacity(t) ==
    LET new_capacity == IF t.capacity < 8 THEN 8 ELSE t.capacity * 2
        new_entries  == rehash(t.entries, 1, new_capacity,
                               with_contents(Entry_new, new_capacity))
    IN  [t EXCEPT !.max_capacity = max_load(new_capacity),
                  !.capacity = new_capacity,
                  !.entries = new_entries]

Table_new ==
    [count |-> 0, capacity |-> INITIAL_CAPACITY,
     max_capacity |-> max_load(INITIAL_CAPACITY),
     entries |-> with_contents(Entry_new, INITIAL_CAPACITY)]

has(t, key) ==
    IF t.count = 0 THEN FALSE
    ELSE t.entries[find_entry(t.capacity, t.entries, key) + 1].key # Symbol_invalid

\* the Table afterwards and the bool returned
set(t, key, value) ==
    LET grown  == IF t.count + 1 > t.max_capacity THEN adjust_capacity(t) ELSE t
        index  == find_entry(grown.capacity, grown.entries, key)
        is_new == grown.entries[index + 1].key = Symbol_invalid
    IN  [table  |-> [grown EXCEPT !.count = IF is_new THEN @ + 1 ELSE @,
                                  !.entries[index + 1] = [key |-> key, value |-> value]],
         is_new |-> is_new]

get(t, key) ==
    IF t.count = 0 THEN NoneOpt
    ELSE LET entry == t.entries[find_entry(t.capacity, t.entries, key) + 1]
         IN  IF entry.key = Symbol_invalid THEN NoneOpt ELSE Some(entry.value)

\* Table::new(); `map` is the map the calls made so far describe, key and
\* is_new are the last set call's key and result
InitTable ==
    /\ tab = [some |-> TRUE, table |-> Table_new, map |-> {}, key |-> Symbol_invalid,
              is_new |-> FALSE, grew |-> FALSE]
    /\ pool = NoneOpt /\ interner = NoneOpt /\ collector = NoneOpt /\ session = NoneOpt
    /\ module = Module_new /\ contexts = <<>> /\ errors = <<>> /\ fn_names = <<>>
    /\ captures = <<>> /\ ops = 0 /\ ret = Other /\ result = NoneOpt
    /\ chunk = Chunk_new /\ patches = <<>> /\ finished = FALSE /\ patched = <<>>
    /\ heap = [objects |-> <<>>, buffers |-> {}] /\ next_id = 1 /\ marks = {}
    /\ finalizers = <<>> /\ stack = <<>> /\ dropped = <<>> /\ gc_log = NoneOpt
    /\ vm = NoneOpt
    /\ parser = NoneOpt /\ offsets = NoneOpt /\ pair = NoneOpt

Set(key, value) ==
    LET r == set(tab.table, key, value)
    IN  /\ tab' = [tab EXCEPT !.table = r.table,
                              !.map = {e \in @ : e[1] # key} \cup {<<key, value>>},
                              !.key = key,
                              !.is_new = r.is_new,
                              !.grew = r.table.capacity # tab.table.capacity]
        /\ UNCHANGED <<svars, cvars, kvars, gvars, ivars, pool, interner, collector, session>>

NextTable == \E key \in TableKeys : \E value \in TableValues(key) : Set(key, value)

SpecTable == InitTable /\ [][NextTable]_vars

IsPowerOfTwo(n) == \E e \in 0..10 : n = 2 ^ e

StoredKeys(t) ==
    {t.entries[i].key : i \in {j \in 1..t.capacity : t.entries[j].key # Symbol_invalid}}

\* C15: capacity is a power of two and at least 8, count is the number of
\* distinct keys stored, count <= 0.75 x capacity, an empty bucket exists and
\* every probe of find_entry terminates.
C15_TableShape ==
    tab.some =>
        LET t == tab.table
        IN  /\ IsPowerOfTwo(t.capacity) /\ t.capacity >= 8
            /\ Len(t.entries) = t.capacity
            /\ t.count = Cardinality(StoredKeys(t))
            /\ t.count = Cardinality({e[1] : e \in tab.map})
            /\ Cardinality({j \in 1..t.capacity : t.entries[j].key # Symbol_invalid})
                  = t.count
            /\ 4 * t.count <= 3 * t.capacity
            /\ \E j \in 1..t.capacity : t.entries[j].key = Symbol_invalid
            /\ \A key \in TableKeys : find_entry(t.capacity, t.entries, key) < t.capacity

\* seven keys stored after the table grew to 16 buckets
C15_Witness ==
    /\ tab.some
    /\ tab.table.capacity = 16
    /\ tab.table.count = 7
    /\ tab.grew

\* C16: get(k) is the value of the most recent set(k, v) and None for a key
\* never set, has(k) holds exactly for the keys set, and set returns true
\* exactly when the key was not in the table before -- growth included.
C16_TableIsMap ==
    /\ [](tab.some =>
            \A key \in TableKeys :
                /\ has(tab.table, key) = (\E e \in tab.map : e[1] = key)
                /\ get(tab.table, key) = HashMap_get(tab.map, key))
    /\ [][tab' # tab => tab'.is_new = ~(\E e \in tab.map : e[1] = tab'.key)]_vars

\* a key set twice among colliding keys, read back after the table grew
C16_Witness ==
    /\ tab.some
    /\ tab.table.capacity = 16
    /\ get(tab.table, 9) = Some(Number(2))
    /\ get(tab.table, 17) = Some(Number(1))
    /\ ~has(tab.table, 15)
    /\ ~tab.is_new
    /\ tab.key = 9

(***************************************************************************)
(* lox-gc: ManagedHeap::collect and its threshold (gc.rs), over a heap     *)
(* seen as the bytes its roots reach and the bytes they do not.            *)
(***************************************************************************)
INITIAL_THRESHOLD == 1048576

THRESHOLD_ADJUST == 2

\* sizes of the allocations: half a MiB, just over the initial threshold, and
\* three that take bytes_used past 2^24, where f32 has no odd integers
AllocSizes == {524288, 1048577, 16777216, 16777217, 16777219}

RECURSIVE ulp_of(_, _)
\* the spacing of the f32 values around n >= 2^24: the power of two u with
\* 2^23 * u <= n < 2^24 * u
ulp_of(n, u) == IF n < 16777216 * u THEN u ELSE ulp_of(n, 2 * u)

\* `n as f32` for a usize n: exact below 2^24, else rounded to the nearest
\* multiple of the spacing, ties to the even multiple
as_f32(n) ==
    LET u == ulp_of(n, 1)
        q == n \div u
        r == n % u
    IN  IF 2 * r > u \/ (2 * r = u /\ q % 2 = 1) THEN (q + 1) * u ELSE q * u

threshold_exact(bytes_used) == bytes_used * THRESHOLD_ADJUST + 100

\* ((bytes_used as f32 * THRESHOLD_ADJUST) as usize) + 100
threshold_after(bytes_used) == as_f32(bytes_used) * THRESHOLD_ADJUST + 100

\* heap::Heap::bytes_used
bytes_used(c) == c.reachable + c.garbage

\* force_collect seen from the byte counts: what the roots do not reach is
\* finalized and swept
collector_force_collect(c) ==
    [c EXCEPT !.garbage = 0, !.collections = @ + 1]

\* ManagedHeap::collect
collect(c) ==
    IF bytes_used(c) > c.threshold
    THEN LET d == collector_force_collect(c)
         IN  [d EXCEPT !.threshold = threshold_after(bytes_used(d))]
    ELSE c

\* ManagedHeap::new()
InitCollector ==
    /\ collector = [some |-> TRUE, reachable |-> 0, garbage |-> 0,
                    threshold |-> INITIAL_THRESHOLD, collections |-> 0,
                    allocs |-> 0, calls |-> 0]
    /\ pool = NoneOpt /\ interner = NoneOpt /\ tab = NoneOpt /\ session = NoneOpt
    /\ module = Module_new /\ contexts = <<>> /\ errors = <<>> /\ fn_names = <<>>
    /\ captures = <<>> /\ ops = 0 /\ ret = Other /\ result = NoneOpt
    /\ chunk = Chunk_new /\ patches = <<>> /\ finished = FALSE /\ patched = <<>>
    /\ heap = [objects |-> <<>>, buffers |-> {}] /\ next_id = 1 /\ marks = {}
    /\ finalizers = <<>> /\ stack = <<>> /\ dropped = <<>> /\ gc_log = NoneOpt
    /\ vm = NoneOpt
    /\ parser = NoneOpt /\ offsets = NoneOpt /\ pair = NoneOpt

\* manage / alloc of `size` bytes that the roots reach or do not reach
Allocate(size, rooted) ==
    /\ collector.allocs < MaxAllocs
    /\ collector' = [collector EXCEPT
                        !.reachable = IF rooted THEN @ + size ELSE @,
                        !.garbage = IF rooted THEN @ ELSE @ + size,
                        !.allocs = @ + 1]
    /\ UNCHANGED <<svars, cvars, kvars, gvars, ivars, pool, interner, tab, session>>

Collect ==
    /\ collector.calls < MaxCollects
    /\ collector' = [collect(collector) EXCEPT !.calls = @ + 1]
    /\ UNCHANGED <<svars, cvars, kvars, gvars, ivars, pool, interner, tab, session>>

NextCollector ==
    \/ \E size \in AllocSizes : \E rooted \in BOOLEAN : Allocate(size, rooted)
    \/ Collect

SpecCollector == InitCollector /\ [][NextCollector]_vars

\* C17: collect does no marking, finalization or sweeping and leaves the
\* threshold when bytes_used <= threshold; when bytes_used > threshold it
\* performs exactly one full collection and sets the threshold to
\* 2 x bytes_used + 100, bytes_used read after the collection.
C17_CollectThreshold ==
    [][collector'.calls # collector.calls =>
          IF bytes_used(collector) <= collector.threshold
          THEN /\ collector'.collections = collector.collections
               /\ collector'.threshold = collector.threshold
               /\ bytes_used(collector') = bytes_used(collector)
          ELSE /\ collector'.collections = collector.collections + 1
               /\ collector'.threshold = threshold_exact(bytes_used(collector'))]_vars

(***************************************************************************)
(* The heap machine with its end: impl Drop for ManagedHeap.               *)
(***************************************************************************)
\* the ManagedHeap has been dropped
HeapDropped == gc_log.some /\ gc_log.events[Len(gc_log.events)] = "drop_heap"

\* Drop::drop: start_gc clears the marks, force_finalize runs
DropHeap ==
    /\ ~HeapDropped
    /\ LET m == Heap_start_gc(marks)
           f == force_finalize(finalizers, m)
       IN  /\ marks' = m
           /\ finalizers' = f.finalizers
           /\ dropped' = dropped \o f.drops
           /\ gc_log' = [some |-> TRUE, registered |-> finalizers, drops |-> f.drops,
                         dangling |-> {id \in Range(f.drops) : id \notin DOMAIN heap.objects},
                         events |-> <<"start_gc">> \o [i \in 1..Len(f.drops) |-> "drop"]
                                      \o <<"drop_heap">>]
    /\ UNCHANGED <<heap, next_id, stack>>
    /\ UNCHANGED <<cvars, kvars, ivars, pvars, svars>>

NextHeapDrop ==
    \/ ~HeapDropped /\ ManageString
    \/ ~HeapDropped /\ \E k \in 0..MaxStrings : ManageImport(k)
    \/ ~HeapDropped /\ \E i \in 1..MaxStack : DefineGlobal(i)
    \/ ~HeapDropped /\ Bind
    \/ ~HeapDropped /\ Pop
    \/ ~HeapDropped /\ ForceCollect
    \/ DropHeap

SpecHeapDrop == InitHeap /\ [][NextHeapDrop]_vars

\* C18: dropping the ManagedHeap runs the destructor of every object still
\* in the finalizer list, reachable or marked earlier or not, each once, and
\* of no object whose destructor ran in an earlier collection.
C18_DropRunsFinalizers ==
    HeapDropped =>
        /\ Range(gc_log.drops) = {p.id : p \in Range(gc_log.registered)}
        /\ Len(gc_log.drops) = Len(gc_log.registered)
        /\ finalizers = <<>>
        /\ \A i, j \in 1..Len(dropped) : i # j => dropped[i] # dropped[j]

\* one object finalized by an earlier collection, two that survived it on
\* the stack (marked), and the heap dropped: the two are finalized now
C18_Witness ==
    /\ HeapDropped
    /\ Len(gc_log.drops) = 2
    /\ Len(dropped) = 3
    /\ \A id \in Range(gc_log.drops) : \E v \in Range(stack) : v.obj /\ v.id = id

(***************************************************************************)
(* The lox binary (src/main.rs, src/vm.rs, src/compiler): run_repl and     *)
(* run_file over Vm::interpret.  A source text is a sequence of characters.*)
(***************************************************************************)
Whitespace == {" ", "\t", "\r"}

Digits == {"1", "2"}

Alpha == {"p", "_"}

Punctuation == {"(", ")", "{", "}", ";", ",", ".", "-", "+", "*", "!", "=", "<", ">"}

\* the lines typed and the files run
Sources ==
    {<<>>, <<" ">>, <<"1">>, <<"1", "+", "2">>, <<" ", "1", " ">>, <<"p">>, <<"(">>,
     <<"@">>, <<"1", "@">>, <<"\"", "p">>, <<"\"", "p", "\"">>, <<" ", "#">>}

RECURSIVE trim_start(_)
trim_start(text) ==
    IF text # <<>> /\ text[1] \in Whitespace THEN trim_start(Tail(text)) ELSE text

RECURSIVE trim_end(_)
trim_end(text) ==
    IF text # <<>> /\ text[Len(text)] \in Whitespace
    THEN trim_end(SubSeq(text, 1, Len(text) - 1))
    ELSE text

\* str::trim
trim(text) == trim_end(trim_start(text))

\* Scanner::scan_token on a fresh Scanner: "Ok" for a token, else the
\* CompilerError; skip_whitespace first, then the match on the character
scan_token(text) ==
    LET rest == trim_start(text)
    IN  IF rest = <<>> THEN "Ok"
        ELSE IF rest[1] = "\""
             THEN IF \E i \in 2..Len(rest) : rest[i] = "\""
                  THEN "Ok" ELSE "UnterminatedString"
             ELSE IF rest[1] \in Punctuation \cup Digits \cup Alpha
                  THEN "Ok" ELSE "UnexpectedCharacter"

\* Compiler::compile: advance()? scans one token, then Ok(Chunk::new())
Compiler_compile(text) == scan_token(text)

\* Vm::new()
Vm_new == [chunk |-> NoneOpt, ip |-> 0, stack_top |-> 0]

\* Vm::run: without a chunk Err(NoChunkPresent), else the dispatch loop
run(v) == IF ~v.chunk.some THEN "NoChunkPresent" ELSE "Ok"

\* Vm::interpret: "Ok" or the VmError
interpret(v, source) ==
    IF Compiler_compile(source) # "Ok" THEN "Compiler" ELSE run(v)

\* main(): Args parsed, Vm::new(), then run_file or run_repl
InitSession ==
    /\ \E mode \in {"repl", "file"} :
         session = [some |-> TRUE, mode |-> mode, vm |-> Vm_new, running |-> TRUE,
                    exit_code |-> 0, prompts |-> 0, source |-> <<>>,
                    compiled |-> "", returned |-> ""]
    /\ pool = NoneOpt /\ interner = NoneOpt /\ tab = NoneOpt /\ collector = NoneOpt
    /\ module = Module_new /\ contexts = <<>> /\ errors = <<>> /\ fn_names = <<>>
    /\ captures = <<>> /\ ops = 0 /\ ret = Other /\ result = NoneOpt
    /\ chunk = Chunk_new /\ patches = <<>> /\ finished = FALSE /\ patched = <<>>
    /\ heap = [objects |-> <<>>, buffers |-> {}] /\ next_id = 1 /\ marks = {}
    /\ finalizers = <<>> /\ stack = <<>> /\ dropped = <<>> /\ gc_log = NoneOpt
    /\ vm = NoneOpt
    /\ parser = NoneOpt /\ offsets = NoneOpt /\ pair = NoneOpt

\* one turn of run_repl's loop with a line read: an empty line breaks the
\* loop (exit code 0), any other is interpreted, and `?` returns the error
\* of interpret from run_repl and main (exit code 1)
repl_turn(s, line) ==
    LET text     == trim(line)
        returned == interpret(s.vm, text)
    IN  IF text = <<>>
        THEN [s EXCEPT !.prompts = @ + 1, !.source = line, !.compiled = "",
                       !.returned = "", !.running = FALSE, !.exit_code = 0]
        ELSE [s EXCEPT !.prompts = @ + 1, !.source = line,
                       !.compiled = Compiler_compile(text),
                       !.returned = returned,
                       !.running = (returned = "Ok"),
                       !.exit_code = IF returned = "Ok" THEN 0 ELSE 1]

ReplLine(line) ==
    /\ session.mode = "repl" /\ session.running
    /\ session.prompts < MaxPrompts
    /\ session' = repl_turn(session, line)
    /\ UNCHANGED <<svars, cvars, kvars, gvars, ivars, pool, interner, tab, collector>>

\* one turn of the loop at the end of stdin: no line, the loop goes on
ReplEof ==
    /\ session.mode = "repl" /\ session.running
    /\ session.prompts < MaxPrompts
    /\ session' = [session EXCEPT !.prompts = @ + 1]
    /\ UNCHANGED <<svars, cvars, kvars, gvars, ivars, pool, interner, tab, collector>>

\* run_file on a file that reads as `source`
RunFile(source) ==
    /\ session.mode = "file" /\ session.running
    /\ LET returned == interpret(session.vm, source)
       IN  session' = [session EXCEPT !.source = source,
                                      !.compiled = Compiler_compile(source),
                                      !.returned = returned,
                                      !.running = FALSE,
                                      !.exit_code = IF returned = "Ok" THEN 0 ELSE 1]
    /\ UNCHANGED <<svars, cvars, kvars, gvars, ivars, pool, interner, tab, collector>>

\* run_file on a file that cannot be read: read_to_string(path)? returns
RunMissingFile ==
    /\ session.mode = "file" /\ session.running
    /\ session' = [session EXCEPT !.running = FALSE, !.exit_code = 1]
    /\ UNCHANGED <<svars, cvars, kvars, gvars, ivars, pool, interner, tab, collector>>

NextSession ==
    \/ \E line \in Sources : ReplLine(line)
    \/ ReplEof
    \/ \E source \in Sources : RunFile(source)
    \/ RunMissingFile

SpecSession == InitSession /\ [][NextSession]_vars

\* C19: in REPL mode an error returned by interpret for a line is fatal only
\* for that line: the session continues with the following lines until an
\* empty line is entered.
C19_ReplContinues ==
    [][(session.mode = "repl" /\ session'.prompts # session.prompts
          /\ trim(session'.source) # <<>> /\ session'.returned \notin {"", "Ok"})
       => session'.running]_vars

\* C20: running a file yields exit code 0 on success and non-zero on an
\* interpretation error: interpret returns Ok for every source that compiles
\* and executes without error, and an error only when compiling or executing
\* raises one.
C20_ExitCode ==
    (session.some /\ session.mode = "file" /\ ~session.running /\ session.compiled # "")
        => /\ (session.returned = "Ok") <=> (session.compiled = "Ok")
           /\ (session.exit_code = 0) <=> (session.returned = "Ok")

(***************************************************************************)
(* lox-syntax: parse_assign (expr_parser.rs) on a left operand already     *)
(* parsed and a right operand that parse_expr returns or fails to return.  *)
(***************************************************************************)
\* Span::union_span
union_span(a, b) == [start |-> Min({a.start, b.start}), end |-> Max({a.end, b.end})]

\* the kinds of Expr a left operand can be
LeftKinds == {"Variable", "Get", "ListGet", "Number", "Call", "Grouping", "This"}

\* a left operand of that kind starting at byte `start`: its parts named l
\* (object or list) and i (identifier or index)
LeftExpr(kind, start) ==
    [kind |-> kind, l |-> IF kind \in {"Get", "ListGet", "Call"} THEN "o" ELSE "",
     i |-> IF kind \in {"Variable", "Get"} THEN "a" ELSE IF kind = "ListGet" THEN "0" ELSE "",
     span |-> [start |-> start, end |-> start + (IF kind \in {"Variable", "Number"} THEN 1 ELSE 4)]]

\* what parse_expr returns for the right operand
RightKinds == {"Number", "Variable", "Assign"}

RightExpr(kind, start) ==
    Some([kind |-> kind, span |-> [start |-> start, end |-> start + (IF kind = "Assign" THEN 3 ELSE 1)]])

\* Parser::error
Parser_error(diagnostics, message, span) ==
    Append(diagnostics, [message |-> message, span |-> span])

parse_assign_lenient(diagnostics, left, right) ==
    IF ~right.some THEN [diagnostics |-> diagnostics, expr |-> NoneOpt]
    ELSE [diagnostics |-> diagnostics,
          expr |-> Some([kind |-> "Assign", l |-> left.l, i |-> left.i, right |-> right.v,
                         span |-> union_span(left.span, right.v.span)])]

\* parse_assign after expect(Equal): `right` is the outcome of
\* parse_expr(it, Precedence::None), None returning at once (`?`)
parse_assign(diagnostics, left, right) ==
    IF ~right.some THEN [diagnostics |-> diagnostics, expr |-> NoneOpt]
    ELSE LET span == union_span(left.span, right.v.span)
             made(kind) == [diagnostics |-> diagnostics,
                            expr |-> Some([kind |-> kind, l |-> left.l, i |-> left.i,
                                           right |-> right.v, span |-> span])]
         IN  CASE left.kind = "Variable" -> made("Assign")
               [] left.kind = "Get"      -> made("Set")
               [] left.kind = "ListGet"  -> made("ListSet")
               [] OTHER -> [diagnostics |-> Parser_error(diagnostics, "Invalid left value",
                                                         left.span),
                            expr |-> NoneOpt]

\* the parser has `left` and stands before `=`
InitParser ==
    /\ \E kind \in LeftKinds : \E start \in 0..MaxStart :
         parser = [some |-> TRUE, left |-> LeftExpr(kind, start), right |-> NoneOpt,
                   diagnostics |-> <<>>, expr |-> NoneOpt, done |-> FALSE]
    /\ pool = NoneOpt /\ interner = NoneOpt /\ tab = NoneOpt /\ collector = NoneOpt
    /\ session = NoneOpt /\ offsets = NoneOpt /\ pair = NoneOpt
    /\ module = Module_new /\ contexts = <<>> /\ errors = <<>> /\ fn_names = <<>>
    /\ captures = <<>> /\ ops = 0 /\ ret = Other /\ result = NoneOpt
    /\ chunk = Chunk_new /\ patches = <<>> /\ finished = FALSE /\ patched = <<>>
    /\ heap = [objects |-> <<>>, buffers |-> {}] /\ next_id = 1 /\ marks = {}
    /\ finalizers = <<>> /\ stack = <<>> /\ dropped = <<>> /\ gc_log = NoneOpt
    /\ vm = NoneOpt

\* parse_assign with a right operand that parses
ParseAssign(kind) ==
    /\ ~parser.done
    /\ LET right == RightExpr(kind, parser.left.span.end + 1)
           r     == parse_assign(parser.diagnostics, parser.left, right)
       IN  parser' = [parser EXCEPT !.right = right, !.diagnostics = r.diagnostics,
                                    !.expr = r.expr, !.done = TRUE]
    /\ UNCHANGED <<cvars, kvars, gvars, ivars, pvars, offsets, pair>>

\* parse_assign with a right operand that does not parse: parse_expr has
\* recorded its own diagnostic and returned None
ParseAssignNoRight ==
    /\ ~parser.done
    /\ LET end  == parser.left.span.end + 1
           diag == Parser_error(parser.diagnostics, "Unexpected <EOF>",
                                [start |-> end, end |-> end])
           r    == parse_assign(diag, parser.left, NoneOpt)
       IN  parser' = [parser EXCEPT !.diagnostics = r.diagnostics, !.expr = r.expr,
                                    !.done = TRUE]
    /\ UNCHANGED <<cvars, kvars, gvars, ivars, pvars, offsets, pair>>

NextParser ==
    \/ \E kind \in RightKinds : ParseAssign(kind)
    \/ ParseAssignNoRight

SpecParser == InitParser /\ [][NextParser]_vars

\* C21: an assignment (left = right, both operands parsed) whose left side is
\* a variable, a property access or an index access produces Assign, Set or
\* ListSet; any other left side produces no expression and records "Invalid
\* left value" with the span of the left side.
C21_AssignTarget ==
    (parser.some /\ parser.done /\ parser.right.some) =>
        LET kind == parser.left.kind
        IN  IF kind \in {"Variable", "Get", "ListGet"}
            THEN /\ parser.expr.some
                 /\ parser.expr.v.kind = (CASE kind = "Variable" -> "Assign"
                                            [] kind = "Get" -> "Set"
                                            [] kind = "ListGet" -> "ListSet")
                 /\ parser.expr.v.right = parser.right.v
                 /\ parser.diagnostics = <<>>
            ELSE /\ ~parser.expr.some
                 /\ parser.diagnostics =
                       <<[message |-> "Invalid left value", span |-> parser.left.span]>>

\* `3=3` at byte 2: no expression, the diagnostic spans the 3 on the left
C21_Witness ==
    /\ parser.some /\ parser.done /\ parser.right.some
    /\ parser.left.kind = "Number"
    /\ ~parser.expr.some
    /\ parser.diagnostics = <<[message |-> "Invalid left value",
                               span |-> [start |-> 2, end |-> 3]]>>

(***************************************************************************)
(* lox-syntax: LineOffsets (position.rs).  A text is a sequence of bytes.  *)
(***************************************************************************)
TextBytes == {"x", "\n"}

Texts == UNION {[1..n -> TextBytes] : n \in 0..MaxTextLen}

RECURSIVE newline_offsets(_, _)
\* the for loop of LineOffsets::new from byte i (0-based): i + 1 for every
\* newline
newline_offsets(data, i) ==
    IF i >= Len(data) THEN <<>>
    ELSE (IF data[i + 1] = "\n" THEN <<i + 1>> ELSE <<>>) \o newline_offsets(data, i + 1)

\* LineOffsets::new
LineOffsets_new(data) == [offsets |-> <<0>> \o newline_offsets(data, 0), len |-> Len(data)]

RECURSIVE binary_search(_, _, _, _)
\* slice::binary_search over v[low..high] (0-based): Ok(index) or
\* Err(insertion point)
binary_search(v, x, low, high) ==
    IF low >= high THEN [ok |-> FALSE, index |-> low]
    ELSE LET mid == low + (high - low) \div 2
         IN  IF v[mid + 1] = x THEN [ok |-> TRUE, index |-> mid]
             ELSE IF v[mid + 1] < x THEN binary_search(v, x, mid + 1, high)
             ELSE binary_search(v, x, low, mid)

line_of_search(r) == r.index

line_number(r) == IF r.ok THEN r.index + 1 ELSE r.index

\* LineOffsets::line for pos <= len (the assert holds)
LineOffsets_line(lo, pos) ==
    line_number(binary_search(lo.offsets, pos, 0, Len(lo.offsets)))

InitOffsets ==
    /\ \E data \in Texts :
         offsets = [some |-> TRUE, data |-> data, lines |-> LineOffsets_new(data),
                    pos |-> 0, line |-> 0, asked |-> FALSE]
    /\ pool = NoneOpt /\ interner = NoneOpt /\ tab = NoneOpt /\ collector = NoneOpt
    /\ session = NoneOpt /\ parser = NoneOpt /\ pair = NoneOpt
    /\ module = Module_new /\ contexts = <<>> /\ errors = <<>> /\ fn_names = <<>>
    /\ captures = <<>> /\ ops = 0 /\ ret = Other /\ result = NoneOpt
    /\ chunk = Chunk_new /\ patches = <<>> /\ finished = FALSE /\ patched = <<>>
    /\ heap = [objects |-> <<>>, buffers |-> {}] /\ next_id = 1 /\ marks = {}
    /\ finalizers = <<>> /\ stack = <<>> /\ dropped = <<>> /\ gc_log = NoneOpt
    /\ vm = NoneOpt

Line(pos) ==
    /\ pos <= offsets.lines.len
    /\ offsets' = [offsets EXCEPT !.pos = pos, !.line = LineOffsets_line(offsets.lines, pos),
                                  !.asked = TRUE]
    /\ UNCHANGED <<cvars, kvars, gvars, ivars, pvars, parser, pair>>

NextOffsets == \E pos \in 0..MaxTextLen : Line(pos)

SpecOffsets == InitOffsets /\ [][NextOffsets]_vars

\* newline bytes at positions strictly before pos
NewlinesBefore(data, pos) == Cardinality({i \in 0..(pos - 1) : data[i + 1] = "\n"})

\* C22: for every text and every byte offset pos with 0 <= pos <= len,
\* line(pos) is 1 + the number of newline bytes strictly before pos, and it
\* is non-decreasing in pos.
C22_LineOfOffset ==
    offsets.some =>
        /\ offsets.asked => offsets.line = 1 + NewlinesBefore(offsets.data, offsets.pos)
        /\ \A p, q \in 0..Len(offsets.data) :
              p <= q => LineOffsets_line(offsets.lines, p) <= LineOffsets_line(offsets.lines, q)

\* the offset right after the second of two newlines in "x\n\nx" is on line 3
C22_Witness ==
    /\ offsets.some /\ offsets.asked
    /\ offsets.data = <<"x", "\n", "\n", "x">>
    /\ offsets.pos = 3
    /\ offsets.line = 3


(***************************************************************************)
(* The program machine: one statement of each lowering the compiler's      *)
(* tests fix byte for byte (tests.rs: stmt_print_strings, if,              *)
(* logical_operators, while, for) is compiled with the Chunk calls of      *)
(* bytecode.rs and then run instruction by instruction on the value stack  *)
(* of the top-level call frame.                                            *)
(***************************************************************************)
OP_SET_LOCAL == 6
OP_STRING    == 34
OP_LESS      == 40
OP_ADD       == 41

get_u16(c, pc) == get_u8(c, pc) + 256 * get_u8(c, pc + 1)

\* a constant pool of a module whose earlier code already added `first`
\* other constants; add is Compiler::add_number / add_string (an equal
\* constant keeps its index, a new one gets len() - 1 after the push)
Const_new(first) == [first |-> first, values |-> <<>>]

Const_add(p, value) ==
    LET found == {i \in 1..Len(p.values) : p.values[i] = value}
        a     == Module_add(p.values, value)
    IN  IF found # {}
        THEN [pool |-> p, index |-> p.first + Min(found) - 1]
        ELSE [pool |-> [p EXCEPT !.values = a.values], index |-> p.first + a.index]

Const_get(p, index) == p.values[index - p.first + 1]

\* literal expressions
NumberLit(n) == [kind |-> "number", v |-> n, s |-> ""]
StringLit(s) == [kind |-> "string", v |-> 0, s |-> s]
TrueLit      == [kind |-> "true", v |-> 0, s |-> ""]
FalseLit     == [kind |-> "false", v |-> 0, s |-> ""]
NilLit       == [kind |-> "nil", v |-> 0, s |-> ""]

\* the claim's layout of STRING: a 4-byte index
emit_string_u32(c, index) == add_u32(add_u8(c, OP_STRING), index)

\* NUMBER <index>, STRING <index>: the opcode and two bytes
emit_number(c, index) == add_u16(add_u8(c, OP_NUMBER), index)

emit_string(c, index) == add_u16(add_u8(c, OP_STRING), index)

\* the compiler's output so far: the chunk and the two constant pools
Output_new(first) ==
    [chunk |-> Chunk_new, numbers |-> Const_new(first), strings |-> Const_new(first)]

emit(st, opcode) == [st EXCEPT !.chunk = add_u8(@, opcode)]

compile_literal(st, e) ==
    CASE e.kind = "number" ->
           LET a == Const_add(st.numbers, e.v)
           IN  [st EXCEPT !.numbers = a.pool, !.chunk = emit_number(@, a.index)]
      [] e.kind = "string" ->
           LET a == Const_add(st.strings, e.s)
           IN  [st EXCEPT !.strings = a.pool, !.chunk = emit_string(@, a.index)]
      [] e.kind = "true"  -> emit(st, OP_TRUE)
      [] e.kind = "false" -> emit(st, OP_FALSE)
      [] e.kind = "nil"   -> emit(st, OP_NIL)

\* a jump with an open slot: the output and the index of the slot
emit_jump(st, opcode) ==
    LET j == add_jump(st.chunk, opcode)
    IN  [out |-> [st EXCEPT !.chunk = j.chunk], index |-> j.index]

patch(st, index) == [st EXCEPT !.chunk = patch_instruction(@, index)]

get_local(st, slot) == [st EXCEPT !.chunk = add_u32(add_u8(@, OP_GET_LOCAL), slot)]

set_local(st, slot) == [st EXCEPT !.chunk = add_u32(add_u8(@, OP_SET_LOCAL), slot)]

\* positions of the compiled statement the properties speak about; -1 for
\* a part the statement does not have
NoLabels ==
    [cond_at |-> -1, body_at |-> -1, step_at |-> -1, exit_at |-> -1,
     back_jump_at |-> -1, b_at |-> -1, end_at |-> -1, after_at |-> -1,
     x_at |-> -1, x_slot |-> -1]

\* print a;
compile_print(first, a) ==
    [out |-> emit(emit(compile_literal(Output_new(first), a), OP_PRINT), OP_RETURN_TOP),
     labels |-> NoLabels]

\* a and b;   a: JUMP_IF_FALSE -> end; POP; b; end: POP
compile_and(first, a, b) ==
    LET s1 == compile_literal(Output_new(first), a)
        j  == emit_jump(s1, OP_JUMP_IF_FALSE)
        s2 == emit(j.out, OP_POP)
        s3 == patch(compile_literal(s2, b), j.index)
    IN  [out |-> emit(emit(s3, OP_POP), OP_RETURN_TOP),
         labels |-> [NoLabels EXCEPT !.b_at = s2.chunk.len, !.end_at = s3.chunk.len]]

\* a or b;   a; JUMP_IF_FALSE -> rhs; JUMP -> end; rhs: POP; b; end: POP
compile_or(first, a, b) ==
    LET s1 == compile_literal(Output_new(first), a)
        f  == emit_jump(s1, OP_JUMP_IF_FALSE)
        j  == emit_jump(f.out, OP_JUMP)
        s2 == emit(patch(j.out, f.index), OP_POP)
        s3 == patch(compile_literal(s2, b), j.index)
    IN  [out |-> emit(emit(s3, OP_POP), OP_RETURN_TOP),
         labels |-> [NoLabels EXCEPT !.b_at = s2.chunk.len, !.end_at = s3.chunk.len]]

\* the locals of the top-level context inside a block that declares `name`
ScopeLocals(name) ==
    declare_locals(Locals_begin_scope(with_context(<<>>, 0, "TopLevel")[1].locals),
                   <<name>>)

SlotOf(name) == Context_resolve_local([locals |-> ScopeLocals(name)], name).slot

\* { if (c) 3; var x = 7; print x; }  and the same with `else 4;`
compile_if(first, c, has_else) ==
    LET s1 == compile_literal(Output_new(first), c)
        f  == emit_jump(s1, OP_JUMP_IF_FALSE)
        s2 == emit(compile_literal(emit(f.out, OP_POP), NumberLit(3)), OP_POP)
        j  == emit_jump(s2, OP_JUMP)
        s3 == emit(compile_literal(emit(patch(j.out, f.index), OP_POP), NumberLit(4)),
                   OP_POP)
        s4 == IF has_else THEN patch(s3, j.index) ELSE patch(s2, f.index)
        s5 == compile_literal(s4, NumberLit(7))
        s6 == emit(get_local(s5, SlotOf("x")), OP_PRINT)
        s7 == [s6 EXCEPT !.chunk =
                 emit_scope_exit(@, Locals_end_scope(ScopeLocals("x")).removed)]
    IN  [out |-> emit(s7, OP_RETURN_TOP),
         labels |-> [NoLabels EXCEPT !.after_at = s4.chunk.len,
                                     !.x_at = s5.chunk.len,
                                     !.x_slot = SlotOf("x")]]

\* for (var i = 0; i < limit; i = i + 1) print i;
compile_for(first, limit) ==
    LET slot == SlotOf("i")
        s1 == compile_literal(Output_new(first), NumberLit(0))
        s2 == emit(compile_literal(get_local(s1, slot), NumberLit(limit)), OP_LESS)
        f  == emit_jump(s2, OP_JUMP_IF_FALSE)
        s3 == emit(f.out, OP_POP)
        s4 == emit(get_local(s3, slot), OP_PRINT)
        s5 == emit(set_local(emit(compile_literal(get_local(s4, slot), NumberLit(1)),
                                  OP_ADD), slot), OP_POP)
        j  == emit_jump(s5, OP_JUMP)
        s6 == [j.out EXCEPT !.chunk = patch_instruction_to(@, j.index, s1.chunk.len)]
        s7 == patch(s6, f.index)
        s8 == [emit(s7, OP_POP) EXCEPT !.chunk =
                 emit_scope_exit(@, Locals_end_scope(ScopeLocals("i")).removed)]
    IN  [out |-> emit(s8, OP_RETURN_TOP),
         labels |-> [NoLabels EXCEPT !.cond_at = s1.chunk.len,
                                     !.body_at = s3.chunk.len,
                                     !.step_at = s4.chunk.len,
                                     !.back_jump_at = s5.chunk.len,
                                     !.exit_at = s7.chunk.len,
                                     !.x_slot = slot]]

\* Value (value.rs): booleans, nil and a string constant of the module
BoolValue(b)     == [tag |-> "Bool", v |-> IF b THEN 1 ELSE 0]
NilValue         == [tag |-> "Nil", v |-> 0]
StringValue(idx) == [tag |-> "String", v |-> idx]

is_falsey(value) == IF value = BoolValue(FALSE) THEN TRUE ELSE value = NilValue

Program(kind, a, b, has_else, limit, first) ==
    [kind |-> kind, a |-> a, b |-> b, has_else |-> has_else, limit |-> limit,
     first |-> first]

\* constants the module holds before the statement is compiled
PoolSizes == {0, 255, 256}

Conditions == {NumberLit(3), TrueLit, FalseLit, NilLit}

Programs ==
    {Program("print", a, NilLit, FALSE, 0, first) :
        a \in {NumberLit(3), StringLit("s")}, first \in PoolSizes}
    \cup {Program(op, a, b, FALSE, 0, 0) :
        op \in {"and", "or"}, a \in Conditions, b \in {NumberLit(4), FalseLit}}
    \cup {Program("if", c, NilLit, has_else, 0, 0) :
        c \in Conditions, has_else \in BOOLEAN}
    \cup {Program("for", NilLit, NilLit, FALSE, limit, 0) : limit \in 0..MaxLimit}

compile(p) ==
    CASE p.kind = "print" -> compile_print(p.first, p.a)
      [] p.kind = "and"   -> compile_and(p.first, p.a, p.b)
      [] p.kind = "or"    -> compile_or(p.first, p.a, p.b)
      [] p.kind = "if"    -> compile_if(p.first, p.a, p.has_else)
      [] p.kind = "for"   -> compile_for(p.first, p.limit)

\* the part of the statement that starts at ip, "" when none does
label(v) ==
    CASE v.ip = v.labels.cond_at -> "cond"
      [] v.ip = v.labels.body_at -> "body"
      [] v.ip = v.labels.step_at -> "step"
      [] v.ip = v.labels.exit_at -> "exit"
      [] v.ip = v.labels.b_at    -> "b"
      [] v.ip = v.labels.end_at  -> "end"
      [] OTHER                   -> ""

\* the history of the run: the parts of the statement entered so far
Visit(v) == IF label(v) = "" THEN v ELSE [v EXCEPT !.trace = Append(@, label(v))]

InitProgram ==
    /\ \E p \in Programs :
         vm = [some |-> TRUE,
               program |-> p,
               compiled |-> FALSE,
               chunk |-> Chunk_new,
               numbers |-> Const_new(p.first),
               strings |-> Const_new(p.first),
               labels |-> NoLabels,
               ip |-> 0,
               base |-> 0,
               stack |-> <<ClosureValue>>,
               printed |-> <<>>,
               done |-> FALSE,
               trace |-> <<>>]
    /\ pool = NoneOpt /\ interner = NoneOpt /\ tab = NoneOpt /\ collector = NoneOpt
    /\ session = NoneOpt /\ parser = NoneOpt /\ offsets = NoneOpt /\ pair = NoneOpt
    /\ module = Module_new /\ contexts = <<>> /\ errors = <<>> /\ fn_names = <<>>
    /\ captures = <<>> /\ ops = 0 /\ ret = Other /\ result = NoneOpt
    /\ chunk = Chunk_new /\ patches = <<>> /\ finished = FALSE /\ patched = <<>>
    /\ heap = [objects |-> <<>>, buffers |-> {}] /\ next_id = 1 /\ marks = {}
    /\ finalizers = <<>> /\ stack = <<>> /\ dropped = <<>> /\ gc_log = NoneOpt

\* Compiler::compile of the statement; the frame then starts at ip 0, which
\* in a for statement is the initializer
CompileProgram ==
    /\ vm.some
    /\ ~vm.compiled
    /\ LET r == compile(vm.program) IN
         vm' = [vm EXCEPT !.compiled = TRUE,
                          !.chunk = r.out.chunk,
                          !.numbers = r.out.numbers,
                          !.strings = r.out.strings,
                          !.labels = r.labels,
                          !.trace = IF vm.program.kind = "for" THEN <<"init">> ELSE <<>>]
    /\ UNCHANGED <<cvars, kvars, gvars, pvars, svars>>

\* the VM is about to dispatch `opcode` of the compiled statement
Fetch(opcode) == vm.some /\ vm.compiled /\ At(opcode)

RunNumber ==
    /\ Fetch(OP_NUMBER)
    /\ vm' = Visit([vm EXCEPT
                 !.stack = Stack_push(@, Number(Const_get(vm.numbers,
                                                get_u16(vm.chunk, vm.ip + 1)))),
                 !.ip = @ + 3])
    /\ UNCHANGED <<cvars, kvars, gvars, pvars, svars>>

RunString ==
    /\ Fetch(OP_STRING)
    /\ vm' = Visit([vm EXCEPT
                 !.stack = Stack_push(@, StringValue(get_u16(vm.chunk, vm.ip + 1))),
                 !.ip = @ + 3])
    /\ UNCHANGED <<cvars, kvars, gvars, pvars, svars>>

RunLiteral ==
    /\ \E op \in {OP_TRUE, OP_FALSE, OP_NIL} :
         /\ Fetch(op)
         /\ vm' = Visit([vm EXCEPT
                      !.stack = Stack_push(@, IF op = OP_NIL THEN NilValue
                                              ELSE BoolValue(op = OP_TRUE)),
                      !.ip = @ + 1])
    /\ UNCHANGED <<cvars, kvars, gvars, pvars, svars>>

RunPop ==
    /\ Fetch(OP_POP)
    /\ Len(vm.stack) > 0
    /\ vm' = Visit([vm EXCEPT !.stack = Stack_pop(@).stack, !.ip = @ + 1])
    /\ UNCHANGED <<cvars, kvars, gvars, pvars, svars>>

RunGetLocal ==
    /\ Fetch(OP_GET_LOCAL)
    /\ vm.base + get_u32(vm.chunk, vm.ip + 1) < Len(vm.stack)
    /\ vm' = Visit([vm EXCEPT
                 !.stack = Stack_push(@, Stack_get(vm.stack,
                                        vm.base + get_u32(vm.chunk, vm.ip + 1))),
                 !.ip = @ + 5])
    /\ UNCHANGED <<cvars, kvars, gvars, pvars, svars>>

\* SET_LOCAL u32: the top is written to the slot and stays on the stack
RunSetLocal ==
    /\ Fetch(OP_SET_LOCAL)
    /\ vm.base + get_u32(vm.chunk, vm.ip + 1) < Len(vm.stack)
    /\ vm' = Visit([vm EXCEPT
                 !.stack[vm.base + get_u32(vm.chunk, vm.ip + 1) + 1] =
                     Stack_peek_n(vm.stack, 0),
                 !.ip = @ + 5])
    /\ UNCHANGED <<cvars, kvars, gvars, pvars, svars>>

\* LESS and ADD of two numbers
RunLess ==
    /\ Fetch(OP_LESS)
    /\ Len(vm.stack) >= 2
    /\ LET b == Stack_peek_n(vm.stack, 0)
           a == Stack_peek_n(vm.stack, 1)
       IN  /\ a.tag = "Number" /\ b.tag = "Number"
           /\ vm' = Visit([vm EXCEPT
                        !.stack = Stack_push(Stack_pop(Stack_pop(@).stack).stack,
                                             BoolValue(a.v < b.v)),
                        !.ip = @ + 1])
    /\ UNCHANGED <<cvars, kvars, gvars, pvars, svars>>

RunAdd ==
    /\ Fetch(OP_ADD)
    /\ Len(vm.stack) >= 2
    /\ LET b == Stack_peek_n(vm.stack, 0)
           a == Stack_peek_n(vm.stack, 1)
       IN  /\ a.tag = "Number" /\ b.tag = "Number"
           /\ vm' = Visit([vm EXCEPT
                        !.stack = Stack_push(Stack_pop(Stack_pop(@).stack).stack,
                                             Number(a.v + b.v)),
                        !.ip = @ + 1])
    /\ UNCHANGED <<cvars, kvars, gvars, pvars, svars>>

\* JUMP i16: relative to the instruction position plus three
RunJump ==
    /\ Fetch(OP_JUMP)
    /\ vm' = Visit([vm EXCEPT !.ip = absolute(@, get_i16(vm.chunk, vm.ip + 1))])
    /\ UNCHANGED <<cvars, kvars, gvars, pvars, svars>>

\* JUMP_IF_FALSE i16: taken when the top is falsey; the top stays
RunJumpIfFalse ==
    /\ Fetch(OP_JUMP_IF_FALSE)
    /\ Len(vm.stack) > 0
    /\ vm' = Visit([vm EXCEPT
                 !.ip = IF is_falsey(Stack_peek_n(vm.stack, 0))
                        THEN absolute(@, get_i16(vm.chunk, vm.ip + 1))
                        ELSE @ + 3])
    /\ UNCHANGED <<cvars, kvars, gvars, pvars, svars>>

RunPrint ==
    /\ Fetch(OP_PRINT)
    /\ Len(vm.stack) > 0
    /\ vm' = Visit([vm EXCEPT !.stack = Stack_pop(@).stack,
                              !.printed = Append(@, Stack_pop(vm.stack).value),
                              !.ip = @ + 1])
    /\ UNCHANGED <<cvars, kvars, gvars, pvars, svars>>

RunReturnTop ==
    /\ Fetch(OP_RETURN_TOP)
    /\ vm' = [vm EXCEPT !.done = TRUE]
    /\ UNCHANGED <<cvars, kvars, gvars, pvars, svars>>

NextProgram ==
    \/ CompileProgram
    \/ RunNumber
    \/ RunString
    \/ RunLiteral
    \/ RunPop
    \/ RunGetLocal
    \/ RunSetLocal
    \/ RunLess
    \/ RunAdd
    \/ RunJump
    \/ RunJumpIfFalse
    \/ RunPrint
    \/ RunReturnTop

SpecProgram == InitProgram /\ [][NextProgram]_vars

\* the constant instruction of a compiled `print a;` and its pool
ConstOp   == IF vm.program.a.kind = "number" THEN OP_NUMBER ELSE OP_STRING
ConstPool == IF vm.program.a.kind = "number" THEN vm.numbers ELSE vm.strings
ConstOf   == IF vm.program.a.kind = "number" THEN vm.program.a.v ELSE vm.program.a.s

\* C23 (amended): a number literal compiles to NUMBER and a string literal
\* to STRING, each followed by a 2-byte little-endian index into its pool:
\* the low byte first, the next instruction right after the two bytes, and
\* the pool holds the literal at that index.
C23_ConstOperands ==
    (vm.some /\ vm.compiled /\ vm.program.kind = "print") =>
        LET index == get_u8(vm.chunk, 1) + 256 * get_u8(vm.chunk, 2) IN
        /\ get_u8(vm.chunk, 0) = ConstOp
        /\ index = vm.program.first
        /\ get_u8(vm.chunk, 1) = index % 256
        /\ get_u8(vm.chunk, 2) = index \div 256
        /\ Const_get(ConstPool, index) = ConstOf
        /\ get_u8(vm.chunk, 3) = OP_PRINT
        /\ vm.chunk.len = 5

\* a string literal compiled into a module that already holds 256 strings:
\* STRING 0 1, and the run pushed that constant
C23_Witness ==
    /\ vm.some /\ vm.compiled
    /\ vm.program.kind = "print"
    /\ vm.program.a.kind = "string"
    /\ vm.program.first = 256
    /\ get_u8(vm.chunk, 1) = 0 /\ get_u8(vm.chunk, 2) = 1
    /\ vm.printed = <<StringValue(256)>>

\* C23 as stated: NUMBER is followed by a 2-byte index and STRING by a
\* 4-byte index
C23_StringOperandU32 ==
    (vm.some /\ vm.compiled /\ vm.program.kind = "print") =>
        LET width == IF vm.program.a.kind = "number" THEN 2 ELSE 4 IN
        /\ get_u8(vm.chunk, 0) = ConstOp
        /\ IF width = 2 THEN get_u16(vm.chunk, 1) = vm.program.first
                        ELSE get_u32(vm.chunk, 1) = vm.program.first
        /\ get_u8(vm.chunk, 1 + width) = OP_PRINT
        /\ vm.chunk.len = 3 + width

\* C24: the code emitted for `if (c) 3;`, with or without `else 4;`, leaves
\* the stack at the height it had before the statement on every path, so
\* that the local x declared right after it sits at its compile-time slot:
\* once `var x = 7;` has run, the value at frame base + slot is 7 and it is
\* the top of the stack.
C24_StatementKeepsHeight ==
    (vm.some /\ vm.compiled /\ vm.program.kind = "if") =>
        /\ vm.ip = vm.labels.after_at => Len(vm.stack) = Len(<<ClosureValue>>)
        /\ vm.ip = vm.labels.x_at =>
             /\ Len(vm.stack) = vm.base + vm.labels.x_slot + 1
             /\ Stack_get(vm.stack, vm.base + vm.labels.x_slot) = Number(7)

\* the parts of `for (var i = 0; i < limit; ...)` in the order a run enters
\* them: the initializer, then condition, body, step per iteration, then
\* the last condition and the exit
ForTrace(limit) ==
    [n \in 1..(3 * limit + 3) |->
        IF n = 1 THEN "init"
        ELSE IF n = 3 * limit + 3 THEN "exit"
        ELSE <<"cond", "body", "step">>[((n - 2) % 3) + 1]]

\* C25: in the code emitted for `for (var i = 0; i < limit; i = i + 1)
\* print i;` the initializer runs once, every iteration enters the
\* condition, the body and the step in that order, the backward JUMP after
\* the step targets the first byte of the condition (not the initializer),
\* and when the condition is falsey control goes to the exit, where the
\* first POP removes the condition value and the second the loop variable.
C25_ForLoop ==
    (vm.some /\ vm.compiled /\ vm.program.kind = "for") =>
        LET l     == vm.labels
            limit == vm.program.limit
            whole == ForTrace(limit)
        IN  /\ Len(vm.trace) <= Len(whole)
            /\ vm.trace = SubSeq(whole, 1, Len(vm.trace))
            /\ get_u8(vm.chunk, l.back_jump_at) = OP_JUMP
            /\ absolute(l.back_jump_at, get_i16(vm.chunk, l.back_jump_at + 1)) = l.cond_at
            /\ l.cond_at > 0
            /\ get_u8(vm.chunk, l.exit_at) = OP_POP
            /\ get_u8(vm.chunk, l.exit_at + 1) = OP_POP
            /\ vm.ip = l.exit_at =>
                 vm.stack = <<ClosureValue, Number(limit), BoolValue(FALSE)>>
            /\ vm.ip = l.exit_at + 1 => vm.stack = <<ClosureValue, Number(limit)>>
            /\ vm.ip = l.exit_at + 2 => vm.stack = <<ClosureValue>>
            /\ vm.done =>
                 /\ vm.trace = whole
                 /\ vm.printed = [n \in 1..limit |-> Number(n - 1)]

\* a loop of two iterations ran to its end
C25_Witness ==
    /\ vm.some /\ vm.compiled /\ vm.done
    /\ vm.program.kind = "for"
    /\ vm.program.limit >= 2
    /\ vm.trace = ForTrace(vm.program.limit)
    /\ vm.stack = <<ClosureValue>>

\* the value a literal evaluates to
ValueOf(e) ==
    CASE e.kind = "number" -> Number(e.v)
      [] e.kind = "true"   -> BoolValue(TRUE)
      [] e.kind = "false"  -> BoolValue(FALSE)
      [] e.kind = "nil"    -> NilValue

\* Lox truthiness of a literal: everything but false and nil
Truthy(e) == e.kind \notin {"false", "nil"}

\* whether `a and b` / `a or b` has to evaluate b
NeedsB(p) == IF p.kind = "and" THEN Truthy(p.a) ELSE ~Truthy(p.a)

\* C26: the code emitted for `a and b;` and `a or b;` runs b's code only
\* when a is truthy (and) or only when a is falsey (or), and on every path
\* reaches the end of the expression with exactly one value above the
\* starting height: a's value when b was skipped, b's value otherwise.
C26_ShortCircuit ==
    (vm.some /\ vm.compiled /\ vm.program.kind \in {"and", "or"}) =>
        LET p == vm.program IN
        /\ "b" \in Range(vm.trace) => NeedsB(p)
        /\ vm.ip = vm.labels.end_at =>
             /\ vm.trace = IF NeedsB(p) THEN <<"b", "end">> ELSE <<"end">>
             /\ vm.stack = <<ClosureValue, ValueOf(IF NeedsB(p) THEN p.b ELSE p.a)>>
        /\ vm.done => "end" \in Range(vm.trace)

\* `3 or false` skipped b and kept 3; the run is at the end of the
\* expression
C26_Witness ==
    /\ vm.some /\ vm.compiled
    /\ vm.program.kind = "or"
    /\ vm.program.a = NumberLit(3)
    /\ vm.ip = vm.labels.end_at
    /\ vm.trace = <<"end">>
    /\ vm.stack = <<ClosureValue, Number(3)>>

(***************************************************************************)
(* The trace machine: the VM builds closures and upvalue cells, closes     *)
(* upvalues over values of its stack (which can make a closure reachable   *)
(* from its own upvalue), and the collector traces from the stack.  The    *)
(* recursion of Gc::trace is kept as the list of the calls still to make,  *)
(* first call first, so that one step is one call of Gc::trace.            *)
(***************************************************************************)
Closure_of(ups)   == [kind |-> "Closure", upvalues |-> ups, closed |-> FALSE, value |-> Nil]
Upvalue_Open      == [kind |-> "Upvalue", upvalues |-> <<>>, closed |-> FALSE, value |-> Nil]
Upvalue_Closed(v) == [kind |-> "Upvalue", upvalues |-> <<>>, closed |-> TRUE, value |-> v]

\* Trace for Upvalue (upvalue.rs), through Trace for Value (value.rs): the
\* Gc::trace calls it makes
Upvalue_trace(u) == IF u.closed /\ u.value.obj THEN <<u.value.id>> ELSE <<>>

\* Trace for Closure: its upvalue cells, in order
Closure_trace(c) == c.upvalues

\* dyn_data().trace(tracer) of the object
dyn_data_trace(objs, id) ==
    IF objs[id].kind = "Closure" THEN Closure_trace(objs[id])
    ELSE Upvalue_trace(objs[id])

\* Gc::trace without the is_marked test
Gc_trace_call_unchecked(m, objs, id) ==
    [marks |-> Heap_mark(m, Ptr(id)), calls |-> dyn_data_trace(objs, id),
     traced |-> TRUE]

\* one call of Gc::trace: the mark bits afterwards, the calls its
\* dyn_data().trace makes, and whether the children were traced
Gc_trace_call(m, objs, id) ==
    IF ~Heap_is_marked(m, Ptr(id))
    THEN [marks |-> Heap_mark(m, Ptr(id)), calls |-> dyn_data_trace(objs, id),
          traced |-> TRUE]
    ELSE [marks |-> m, calls |-> <<>>, traced |-> FALSE]

IdsOf(kind) == {id \in DOMAIN heap.objects : heap.objects[id].kind = kind}

\* the upvalue lists a new closure may capture: up to two distinct cells
UpvalueLists ==
    {<<>>} \cup {<<u>> : u \in IdsOf("Upvalue")}
    \cup {p \in IdsOf("Upvalue") \X IdsOf("Upvalue") : p[1] # p[2]}

Idle    == gc_log.some /\ gc_log.phase = "idle"
Tracing == gc_log.some /\ gc_log.phase = "trace"
Traced  == gc_log.some /\ gc_log.phase = "done"

InitTrace ==
    /\ heap = [objects |-> <<>>, buffers |-> {}]
    /\ next_id = 1
    /\ marks = {}
    /\ finalizers = <<>>
    /\ stack = <<>>
    /\ dropped = <<>>
    /\ gc_log = [some |-> TRUE, phase |-> "idle", pending |-> <<>>, traced |-> <<>>,
                 skipped |-> 0, calls |-> 0]
    /\ pool = NoneOpt /\ interner = NoneOpt /\ tab = NoneOpt /\ collector = NoneOpt
    /\ session = NoneOpt /\ parser = NoneOpt /\ offsets = NoneOpt /\ pair = NoneOpt
    /\ module = Module_new /\ contexts = <<>> /\ errors = <<>> /\ fn_names = <<>>
    /\ captures = <<>> /\ ops = 0 /\ ret = Other /\ result = NoneOpt
    /\ chunk = Chunk_new /\ patches = <<>> /\ finished = FALSE /\ patched = <<>>
    /\ vm = NoneOpt

\* an open upvalue cell is managed
NewUpvalue ==
    /\ Idle
    /\ next_id <= MaxTraceObjects
    /\ heap' = [heap EXCEPT !.objects = (next_id :> Upvalue_Open) @@ @]
    /\ next_id' = next_id + 1
    /\ UNCHANGED <<marks, finalizers, stack, dropped, gc_log>>
    /\ UNCHANGED <<cvars, kvars, ivars, pvars, svars>>

\* CLOSURE: a closure over some of the cells is managed and pushed
NewClosure ==
    /\ Idle
    /\ next_id <= MaxTraceObjects
    /\ Len(stack) < MaxStack
    /\ \E ups \in UpvalueLists :
         heap' = [heap EXCEPT !.objects = (next_id :> Closure_of(ups)) @@ @]
    /\ stack' = Append(stack, Obj(next_id))
    /\ next_id' = next_id + 1
    /\ UNCHANGED <<marks, finalizers, dropped, gc_log>>
    /\ UNCHANGED <<cvars, kvars, ivars, pvars, svars>>

\* CLOSE_UPVALUE: an open cell becomes Closed(value) with a value read off
\* the stack
CloseUpvalue ==
    /\ Idle
    /\ \E u \in IdsOf("Upvalue") : \E i \in 1..Len(stack) :
         /\ ~heap.objects[u].closed
         /\ heap' = [heap EXCEPT !.objects[u] = Upvalue_Closed(stack[i])]
    /\ UNCHANGED <<next_id, marks, finalizers, stack, dropped, gc_log>>
    /\ UNCHANGED <<cvars, kvars, ivars, pvars, svars>>

PopRoot ==
    /\ Idle
    /\ Len(stack) > 0
    /\ stack' = Stack_pop(stack).stack
    /\ UNCHANGED <<heap, next_id, marks, finalizers, dropped, gc_log>>
    /\ UNCHANGED <<cvars, kvars, ivars, pvars, svars>>

\* force_collect: start_gc, then the roots' trace calls, one per value of
\* the stack that is an object
StartTrace ==
    /\ Idle
    /\ marks' = Heap_start_gc(marks)
    /\ gc_log' = [gc_log EXCEPT
                    !.phase = "trace",
                    !.pending = [i \in 1..Len(stack) |-> stack[i].id],
                    !.traced = [id \in DOMAIN heap.objects |-> 0]]
    /\ UNCHANGED <<heap, next_id, finalizers, stack, dropped>>
    /\ UNCHANGED <<cvars, kvars, ivars, pvars, svars>>

\* the next call of Gc::trace
TraceStep ==
    /\ Tracing
    /\ gc_log.pending # <<>>
    /\ gc_log.calls < MaxTraceCalls
    /\ LET id == Head(gc_log.pending)
           r  == Gc_trace_call(marks, heap.objects, id)
       IN  /\ marks' = r.marks
           /\ gc_log' = [gc_log EXCEPT
                           !.pending = r.calls \o Tail(@),
                           !.traced[id] = IF r.traced THEN @ + 1 ELSE @,
                           !.skipped = IF r.traced THEN @ ELSE @ + 1,
                           !.calls = @ + 1]
    /\ UNCHANGED <<heap, next_id, finalizers, stack, dropped>>
    /\ UNCHANGED <<cvars, kvars, ivars, pvars, svars>>

\* the last call returned: tracing is over
EndTrace ==
    /\ Tracing
    /\ gc_log.pending = <<>>
    /\ gc_log' = [gc_log EXCEPT !.phase = "done"]
    /\ UNCHANGED <<heap, next_id, marks, finalizers, stack, dropped>>
    /\ UNCHANGED <<cvars, kvars, ivars, pvars, svars>>

NextTrace ==
    \/ NewUpvalue
    \/ NewClosure
    \/ CloseUpvalue
    \/ PopRoot
    \/ StartTrace
    \/ TraceStep
    \/ EndTrace

SpecTrace == InitTrace /\ [][NextTrace]_vars

\* force_collect is one sequential call: once it has started, the
\* recursion makes its next call until none is left
SpecTraceFair == SpecTrace /\ WF_vars(TraceStep) /\ WF_vars(EndTrace)

\* the objects a trace from `ids` has to mark
RECURSIVE ReachableIds(_, _)
ReachableIds(objs, ids) ==
    LET next == ids \cup UNION {Range(dyn_data_trace(objs, id)) : id \in ids}
    IN  IF next = ids THEN ids ELSE ReachableIds(objs, next)

\* C27: tracing from the roots terminates on every object graph, cyclic
\* ones included: a Gc::trace call on an object that is already marked
\* changes no mark and makes no further call, each object's children are
\* traced at most once per collection, and every collection that started
\* tracing finishes it, with exactly the reachable objects marked.
C27_TraceTerminates ==
    /\ [](gc_log.some =>
            /\ \A id \in DOMAIN gc_log.traced : gc_log.traced[id] <= 1
            /\ Traced => marks = {Ptr(id) : id \in
                            ReachableIds(heap.objects, {stack[i].id : i \in 1..Len(stack)})})
    /\ [][(Tracing /\ gc_log.pending # <<>>
            /\ Heap_is_marked(marks, Ptr(Head(gc_log.pending)))
            /\ gc_log' # gc_log)
          => (marks' = marks /\ gc_log'.pending = Tail(gc_log.pending)
              /\ gc_log'.traced = gc_log.traced)]_vars
    /\ (Tracing ~> Traced)

\* a closure on the stack whose closed upvalue holds the closure itself was
\* traced: the second Gc::trace call on the closure found it marked
C27_Witness ==
    /\ Traced
    /\ gc_log.skipped >= 1
    /\ \E c \in IdsOf("Closure") : \E n \in 1..Len(heap.objects[c].upvalues) :
         LET u == heap.objects[c].upvalues[n] IN
         /\ heap.objects[u].closed
         /\ heap.objects[u].value = Obj(c)
         /\ Ptr(c) \in marks /\ Ptr(u) \in marks
         /\ gc_log.traced[c] = 1 /\ gc_log.traced[u] = 1

(***************************************************************************)
(* The locals machine: a Locals::new() under any sequence of begin_scope,  *)
(* end_scope, insert, mark_initialized and mark_captured (locals.rs).      *)
(* end_scope below depth 0 and mark_initialized on an empty stack panic    *)
(* (usize underflow, index out of bounds) and are no steps.                *)
(***************************************************************************)
LocalNames == {"a", "b"}

TheLocals == contexts[1].locals

\* what the last call was: its name, the identifier it was given, whether
\* that identifier was declared at the current depth, and the Locals before
LocalsCall(op, name) ==
    [op |-> op, name |-> name,
     declared |-> Locals_get_at_current_depth(TheLocals, name) # 0,
     before |-> TheLocals]

InitLocals ==
    /\ contexts = <<[locals |-> Locals_new]>>
    /\ ops = 0
    /\ ret = [op |-> "new", name |-> "", declared |-> FALSE, before |-> Locals_new]
    /\ module = Module_new /\ errors = <<>> /\ fn_names = <<>>
    /\ captures = <<>> /\ result = NoneOpt
    /\ pool = NoneOpt /\ interner = NoneOpt /\ tab = NoneOpt /\ collector = NoneOpt
    /\ session = NoneOpt /\ parser = NoneOpt /\ offsets = NoneOpt /\ pair = NoneOpt
    /\ chunk = Chunk_new /\ patches = <<>> /\ finished = FALSE /\ patched = <<>>
    /\ heap = [objects |-> <<>>, buffers |-> {}] /\ next_id = 1 /\ marks = {}
    /\ finalizers = <<>> /\ stack = <<>> /\ dropped = <<>> /\ gc_log = NoneOpt
    /\ vm = NoneOpt

LocalsBeginScope ==
    /\ ops < MaxLocalsOps
    /\ contexts' = [contexts EXCEPT ![1].locals = Locals_begin_scope(@)]
    /\ ret' = LocalsCall("begin_scope", "")
    /\ ops' = ops + 1
    /\ UNCHANGED <<module, errors, fn_names, captures, result>>
    /\ UNCHANGED <<kvars, gvars, ivars, pvars, svars>>

LocalsEndScope ==
    /\ ops < MaxLocalsOps
    /\ TheLocals.scope_depth > 0
    /\ contexts' = [contexts EXCEPT ![1].locals = Locals_end_scope(@).locals]
    /\ ret' = LocalsCall("end_scope", "")
    /\ ops' = ops + 1
    /\ UNCHANGED <<module, errors, fn_names, captures, result>>
    /\ UNCHANGED <<kvars, gvars, ivars, pvars, svars>>

LocalsInsert ==
    /\ ops < MaxLocalsOps
    /\ \E name \in LocalNames :
         /\ contexts' = [contexts EXCEPT ![1].locals = Locals_insert(@, name)]
         /\ ret' = LocalsCall("insert", name)
    /\ ops' = ops + 1
    /\ UNCHANGED <<module, errors, fn_names, captures, result>>
    /\ UNCHANGED <<kvars, gvars, ivars, pvars, svars>>

LocalsMarkInitialized ==
    /\ ops < MaxLocalsOps
    /\ TheLocals.stack # <<>>
    /\ contexts' = [contexts EXCEPT ![1].locals = Locals_mark_initialized(@)]
    /\ ret' = LocalsCall("mark_initialized", "")
    /\ ops' = ops + 1
    /\ UNCHANGED <<module, errors, fn_names, captures, result>>
    /\ UNCHANGED <<kvars, gvars, ivars, pvars, svars>>

\* any slot, one past the stack included (no local has it)
LocalsMarkCaptured ==
    /\ ops < MaxLocalsOps
    /\ \E slot \in 0..Len(TheLocals.stack) :
         contexts' = [contexts EXCEPT ![1].locals = Locals_mark_captured(@, slot)]
    /\ ret' = LocalsCall("mark_captured", "")
    /\ ops' = ops + 1
    /\ UNCHANGED <<module, errors, fn_names, captures, result>>
    /\ UNCHANGED <<kvars, gvars, ivars, pvars, svars>>

NextLocals ==
    \/ LocalsBeginScope
    \/ LocalsEndScope
    \/ LocalsInsert
    \/ LocalsMarkInitialized
    \/ LocalsMarkCaptured

SpecLocals == InitLocals /\ [][NextLocals]_vars

\* C28: after any sequence of begin_scope, end_scope, insert,
\* mark_initialized and mark_captured on a new Locals, every entry's slot
\* is its position in the stack, the depths do not decrease from bottom to
\* top and do not exceed scope_depth, no two entries of one depth have the
\* same name, and an insert of a name already declared at the current
\* depth left the Locals as it was.
C28_LocalsShape ==
    LET l == TheLocals IN
    /\ \A i \in 1..Len(l.stack) :
         /\ l.stack[i].slot = i - 1
         /\ l.stack[i].depth <= l.scope_depth
    /\ \A i, j \in 1..Len(l.stack) :
         /\ i < j => l.stack[i].depth <= l.stack[j].depth
         /\ (i # j /\ l.stack[i].depth = l.stack[j].depth) =>
                l.stack[i].name # l.stack[j].name
    /\ (ret.op = "insert" /\ ret.declared) => l = ret.before

\* `a` declared twice, the second time at depth 1, and the last call was an
\* insert of the declared `a` that changed nothing
C28_Witness ==
    /\ Len(TheLocals.stack) = 2
    /\ TheLocals.stack[1].name = "a" /\ TheLocals.stack[2].name = "a"
    /\ TheLocals.stack[2].depth = 1
    /\ TheLocals.scope_depth = 1
    /\ ret.op = "insert" /\ ret.declared
    /\ ops >= 4

(***************************************************************************)
(* The REPL reading a finite standard input (a file or a pipe): the lines  *)
(* are read one per turn of run_repl's loop; once they are used up,        *)
(* stdin().lines().next() is None on every turn (main.rs).                 *)
(***************************************************************************)
RECURSIVE Inputs(_)
Inputs(n) ==
    IF n = 0 THEN {<<>>}
    ELSE Inputs(n - 1) \cup {Append(i, line) : i \in Inputs(n - 1), line \in Sources}

InitRepl ==
    /\ \E input \in Inputs(MaxLines) :
         session = [some |-> TRUE, mode |-> "repl", vm |-> Vm_new, running |-> TRUE,
                    exit_code |-> 0, prompts |-> 0, source |-> <<>>,
                    compiled |-> "", returned |-> "", stdin |-> input]
    /\ pool = NoneOpt /\ interner = NoneOpt /\ tab = NoneOpt /\ collector = NoneOpt
    /\ parser = NoneOpt /\ offsets = NoneOpt /\ pair = NoneOpt
    /\ module = Module_new /\ contexts = <<>> /\ errors = <<>> /\ fn_names = <<>>
    /\ captures = <<>> /\ ops = 0 /\ ret = Other /\ result = NoneOpt
    /\ chunk = Chunk_new /\ patches = <<>> /\ finished = FALSE /\ patched = <<>>
    /\ heap = [objects |-> <<>>, buffers |-> {}] /\ next_id = 1 /\ marks = {}
    /\ finalizers = <<>> /\ stack = <<>> /\ dropped = <<>> /\ gc_log = NoneOpt
    /\ vm = NoneOpt

\* a turn of the loop that reads the next line
ReplRead ==
    /\ session.mode = "repl" /\ session.running
    /\ session.stdin # <<>>
    /\ session' = [repl_turn(session, Head(session.stdin)) EXCEPT !.stdin = Tail(@)]
    /\ UNCHANGED <<svars, cvars, kvars, gvars, ivars, pool, interner, tab, collector>>

\* a turn of the loop at the end of the input: the prompt is printed,
\* next() is None, `if let Some(Ok(line))` does not match and the loop goes
\* round.  The prompts are counted modulo MaxPrompts + 1, so that the
\* endless run of turns is a cycle of finitely many states.
ReplTurnAtEof ==
    /\ session.mode = "repl" /\ session.running
    /\ session.stdin = <<>>
    /\ session' = [session EXCEPT !.prompts = (@ + 1) % (MaxPrompts + 1)]
    /\ UNCHANGED <<svars, cvars, kvars, gvars, ivars, pool, interner, tab, collector>>

NextRepl ==
    \/ ReplRead
    \/ ReplTurnAtEof

SpecRepl == InitRepl /\ [][NextRepl]_vars

\* run_repl is a sequential loop and a read from a file or a pipe does not
\* block: the loop keeps turning
SpecReplFair == SpecRepl /\ WF_vars(ReplRead) /\ WF_vars(ReplTurnAtEof)

\* C29: once standard input has reached its end (no further line can be
\* read), the REPL loop eventually exits.
C29_ReplExitsAtEof ==
    (session.some /\ session.stdin = <<>>) ~> ~session.running

(***************************************************************************)
(* lox-vm: Value (value.rs), a NaN-boxed u64.  The 64 bits are kept as the *)
(* three words f64::to_bits is kept as: the sign and exponent (12 bits),   *)
(* the high 20 bits of the fraction, and its low 32 bits.                  *)
(***************************************************************************)
TAG_NIL   == 1
TAG_FALSE == 2
TAG_TRUE  == 3

\* 0x7ffc_0000_0000_0000 and 0x8000_0000_0000_0000
QNAN     == <<2047, 786432, 0>>
SIGN_BIT == <<2048, 0, 0>>

\* bits | tag for a word whose low bits are clear, and SIGN_BIT | QNAN
with_low(bits, low) == <<bits[1], bits[2], bits[3] + low>>
SIGN_QNAN == <<SIGN_BIT[1] + QNAN[1], QNAN[2], 0>>

\* bits & QNAN and bits & (SIGN_BIT | QNAN)
and_QNAN(bits)      == <<bits[1] % 2048, (bits[2] \div 262144) * 262144, 0>>
and_SIGN_QNAN(bits) == <<bits[1], (bits[2] \div 262144) * 262144, 0>>

Value_NIL   == with_low(QNAN, TAG_NIL)
Value_FALSE == with_low(QNAN, TAG_FALSE)
Value_TRUE  == with_low(QNAN, TAG_TRUE)

\* From<f64> for Value
Value_from_f64(value) == to_bits(value)

\* Value::from_object of a Gc whose allocation is at `address`
Value_from_object(address) == with_low(SIGN_QNAN, address)

is_object(v) == and_SIGN_QNAN(v) = SIGN_QNAN
is_number(v) == and_QNAN(v) # QNAN
is_bool(v)   == v = Value_TRUE \/ v = Value_FALSE
is_nil(v)    == v = Value_NIL

\* Value::as_object: the address, bits & !(SIGN_BIT | QNAN)
as_object(v) == v[3]

\* the allocations of the heap: address -> the type tag of the header
Allocations == (8 :> "LoxString") @@ (16 :> "LoxString") @@ (24 :> "Closure")

Gc_is_same_type(a, b) == Allocations[a] = Allocations[b]

Value_is_same_type(a, b) ==
    IF \/ (is_number(a) /\ is_number(b))
       \/ (is_nil(a) /\ is_nil(b))
       \/ (is_object(a) /\ is_object(b))
    THEN TRUE
    ELSE IF is_object(a) /\ is_object(b)
         THEN Gc_is_same_type(as_object(a), as_object(b))
         ELSE FALSE

\* numbers (0.0, -0.0, 1.0, NaN), nil, the booleans and three objects
Values ==
    {Value_from_f64(f) : f \in Floats}
    \cup {Value_NIL, Value_TRUE, Value_FALSE}
    \cup {Value_from_object(address) : address \in DOMAIN Allocations}

InitValue ==
    /\ \E a \in Values : \E b \in Values :
         pair = [some |-> TRUE, a |-> a, b |-> b, called |-> FALSE, result |-> FALSE]
    /\ pool = NoneOpt /\ interner = NoneOpt /\ tab = NoneOpt /\ collector = NoneOpt
    /\ session = NoneOpt /\ parser = NoneOpt /\ offsets = NoneOpt
    /\ module = Module_new /\ contexts = <<>> /\ errors = <<>> /\ fn_names = <<>>
    /\ captures = <<>> /\ ops = 0 /\ ret = Other /\ result = NoneOpt
    /\ chunk = Chunk_new /\ patches = <<>> /\ finished = FALSE /\ patched = <<>>
    /\ heap = [objects |-> <<>>, buffers |-> {}] /\ next_id = 1 /\ marks = {}
    /\ finalizers = <<>> /\ stack = <<>> /\ dropped = <<>> /\ gc_log = NoneOpt
    /\ vm = NoneOpt

IsSameType ==
    /\ pair.some
    /\ ~pair.called
    /\ pair' = [pair EXCEPT !.called = TRUE,
                            !.result = Value_is_same_type(pair.a, pair.b)]
    /\ UNCHANGED <<cvars, kvars, gvars, ivars, pvars, parser, offsets>>

NextValue == IsSameType

SpecValue == InitValue /\ [][NextValue]_vars

\* the kinds the claim speaks of
SameKind(a, b) ==
    \/ is_number(a) /\ is_number(b)
    \/ is_nil(a) /\ is_nil(b)
    \/ is_bool(a) /\ is_bool(b)
    \/ /\ is_object(a) /\ is_object(b)
       /\ Allocations[as_object(a)] = Allocations[as_object(b)]

\* C30: Value::is_same_type(a, b) is true exactly when a and b are both
\* numbers, both nil, both booleans, or both heap objects carrying the same
\* type tag.
C30_IsSameType ==
    (pair.some /\ pair.called) => (pair.result <=> SameKind(pair.a, pair.b))
=============================================================================
